---- MODULE Spec2Model ----
(***************************************************************************)
(* Order lifecycle of the point-of-sale store: order-number assignment,    *)
(* order-item validation, catalog deletion and customer statistics, as     *)
(* implemented by the store's triggers and constraints and by the          *)
(* service-layer calls that reach them.                                    *)
(***************************************************************************)
EXTENDS Integers, Sequences, FiniteSets, TLC

VARIABLES
  today,        \* CURRENT_DATE, as a day index
  now,          \* now(), as a logical clock
  orders,       \* rows of table orders
  tx,           \* per client: the createOrder call in flight
  order_items,  \* rows of table order_items
  menu_items,   \* rows of table menu_items
  combo_meals,  \* rows of table combo_meals
  customers,    \* rows of table customers, by id
  last,         \* the last completed statement and its outcome
  probe,        \* one evaluation of a function of the store on given inputs
  kitchen_owners,  \* rows of table kitchen_owners
  auth_users,   \* accounts of the identity provider (auth.users)
  users,        \* rows of table users
  payments,     \* rows of table payments
  req,          \* per request: the create-kitchen-owner handler in progress
  restaurants,  \* rows of table restaurants
  business_hours  \* rows of table business_hours

\* the tables and requests of tenant provisioning and access control
platform == <<kitchen_owners, auth_users, users, payments, req, restaurants,
             business_hours>>

vars == <<today, now, orders, tx, order_items, menu_items, combo_meals,
          customers, last, probe, kitchen_owners, auth_users, users, payments, req,
          restaurants, business_hours>>

NULL == "NULL"

(***************************************************************************)
(* Bounds of the model.                                                    *)
(***************************************************************************)
MaxDay == 2
MaxOrders == 3
MaxItems == 2
MaxBatch == 2
MaxClock == 4
MaxDigits == 4
MaxPayments == 2

(***************************************************************************)
(* Text and number formatting.                                             *)
(***************************************************************************)
DigitChars == <<"0", "1", "2", "3", "4", "5", "6", "7", "8", "9">>

RECURSIVE IntToText(_)
\* integer::text and String(n), for n >= 0
IntToText(n) ==
  IF n < 10 THEN <<DigitChars[n + 1]>>
  ELSE IntToText(n \div 10) \o <<DigitChars[(n % 10) + 1]>>

\* SQL LPAD(s, len, fill): pads on the left up to len, and truncates on the
\* right a string that is already longer than len
LPAD(s, len, fill) ==
  IF Len(s) >= len THEN SubSeq(s, 1, len)
  ELSE [i \in 1..(len - Len(s)) |-> fill] \o s

\* JavaScript String.prototype.padStart: pads on the left, never truncates
padStart(s, len, fill) ==
  IF Len(s) >= len THEN s
  ELSE [i \in 1..(len - Len(s)) |-> fill] \o s

\* the calendar date of a day index
DateOf(day) == [y |-> 2025, m |-> 8, d |-> 10 + day]

\* to_char(CURRENT_DATE, 'YYYYMMDD')
to_char_YYYYMMDD(day) ==
  LET dt == DateOf(day) IN
  padStart(IntToText(dt.y), 4, "0") \o padStart(IntToText(dt.m), 2, "0")
    \o padStart(IntToText(dt.d), 2, "0")

\* order_number := date_prefix || '-' || LPAD((order_count + 1)::text, 4, '0')
OrderNumberText(day, order_count) ==
  to_char_YYYYMMDD(day) \o <<"-">> \o LPAD(IntToText(order_count + 1), 4, "0")

\* `${datePrefix}-${String((count || 0) + 1).padStart(4, '0')}`
ClientOrderNumberText(day, count) ==
  to_char_YYYYMMDD(day) \o <<"-">> \o padStart(IntToText(count + 1), 4, "0")

(***************************************************************************)
(* Schema values.                                                          *)
(***************************************************************************)
Restaurants == {"rA", "rB"}
Clients == {"c1", "c2"}
OrderStatus == {"pending", "preparing", "ready", "served", "cancelled"}

\* a text column that is NULL (every other text is a sequence of characters)
NullText == <<"\\N">>
EmptyText == << >>

NoOp == [op |-> "none", ok |-> TRUE, err |-> "", arg |-> [none |-> TRUE]]
Idle == [pc |-> "idle"]

Requests == {"q1", "q2"}

\* no owner, account, user or payment yet, and no provisioning request
NoPlatform ==
  /\ kitchen_owners = {}
  /\ auth_users = {}
  /\ users = {}
  /\ payments = {}
  /\ req = [q \in Requests |-> Idle]
  /\ restaurants = {}
  /\ business_hours = {}

(***************************************************************************)
(* Order numbers: generate_order_number, set_order_number and the          *)
(* service's generateOrderNumber.                                          *)
(***************************************************************************)
\* SELECT COUNT(*) FROM orders WHERE restaurant_id = restaurant_uuid
\*   AND DATE(created_at) = CURRENT_DATE
CountToday(rows, restaurant_uuid, day) ==
  Cardinality({o \in rows : o.restaurant_id = restaurant_uuid /\ o.created_on = day})

generate_order_number(order_count, day) == OrderNumberText(day, order_count)

\* BEFORE INSERT trigger: only sets the number when it is not already set
set_order_number(new_order_number, generated) ==
  IF new_order_number = NullText \/ new_order_number = EmptyText
  THEN generated
  ELSE new_order_number

\* count of today's orders as the service reads it
ClientCountToday(rows, restaurantId, day) ==
  Cardinality({o \in rows : o.restaurant_id = restaurantId /\ o.created_on = day})

\* orders.order_number text UNIQUE NOT NULL: the rows that hold a number
OrderNumberHolders(rows, number) == {o \in rows : o.order_number = number}

\* gen_random_uuid(): an id no stored order has
FreshOrderId(rows) ==
  CHOOSE i \in 1..MaxOrders :
    /\ i \notin {o.id : o \in rows}
    /\ \A j \in 1..(i - 1) : j \in {o.id : o \in rows}

\* the row an insert stores: status defaults to 'pending', created_at and
\* updated_at to now()
NewOrderRow(id, restaurant_id, customer_id, number, amount, day, clock) ==
  [id |-> id, restaurant_id |-> restaurant_id, customer_id |-> customer_id,
   order_number |-> number, status |-> "pending", total_amount |-> amount,
   created_on |-> day, updated_at |-> clock]

InFlight == Cardinality({c \in Clients : tx[c].pc # "idle"})

\* OrderService.generateOrderNumber: the service reads the count of today's
\* orders and formats the number it will pass to createOrder
GenerateOrderNumber(c, restaurantId) ==
  /\ tx[c].pc = "idle"
  /\ Cardinality(orders) + InFlight < MaxOrders
  /\ tx' = [tx EXCEPT ![c] =
       [pc |-> "numbered", restaurant_id |-> restaurantId,
        order_count |-> ClientCountToday(orders, restaurantId, today),
        order_number |->
          ClientOrderNumberText(today, ClientCountToday(orders, restaurantId, today)),
        day |-> today]]
  /\ UNCHANGED <<today, now, orders, order_items, menu_items, combo_meals,
                 customers, last, probe, platform>>

\* OrderService.createOrder without an order number: the insert starts, the
\* BEFORE INSERT trigger counts the orders its snapshot sees and sets NEW.order_number
BeginCreateOrder(c, restaurant_id, supplied) ==
  /\ tx[c].pc = "idle"
  /\ supplied \in {NullText, EmptyText}
  /\ Cardinality(orders) + InFlight < MaxOrders
  /\ tx' = [tx EXCEPT ![c] =
       [pc |-> "inserting", restaurant_id |-> restaurant_id,
        order_count |-> CountToday(orders, restaurant_id, today),
        order_number |->
          set_order_number(supplied,
            generate_order_number(CountToday(orders, restaurant_id, today), today)),
        day |-> today]]
  /\ UNCHANGED <<today, now, orders, order_items, menu_items, combo_meals,
                 customers, last, probe, platform>>

\* the outcome of storing the row of client c: the unique index on
\* order_number rejects a number another committed row holds
StoreOrderRow(c, number, created_on) ==
  LET holders == OrderNumberHolders(orders, number)
      arg == [client |-> c, restaurant_id |-> tx[c].restaurant_id,
              order_number |-> number,
              holder |-> IF holders = {} THEN NULL
                         ELSE (CHOOSE o \in holders : TRUE).restaurant_id]
  IN
  IF holders # {}
  THEN /\ orders' = orders
       /\ last' = [op |-> "createOrder", ok |-> FALSE, err |-> "23505", arg |-> arg]
  ELSE /\ orders' = orders \cup
            {NewOrderRow(FreshOrderId(orders), tx[c].restaurant_id, NULL, number,
                         0, created_on, now)}
       /\ last' = [op |-> "createOrder", ok |-> TRUE, err |-> "", arg |-> arg]

\* the insert begun by BeginCreateOrder reaches the unique index and commits
\* or fails; created_at is the start time of its transaction
CommitCreateOrder(c) ==
  /\ tx[c].pc = "inserting"
  /\ StoreOrderRow(c, tx[c].order_number, tx[c].day)
  /\ tx' = [tx EXCEPT ![c] = Idle]
  /\ UNCHANGED <<today, now, order_items, menu_items, combo_meals, customers, probe, platform>>

\* OrderService.createOrder with the number the service generated: the
\* trigger leaves a supplied number alone
CreateOrderSupplied(c) ==
  /\ tx[c].pc = "numbered"
  /\ StoreOrderRow(c, set_order_number(tx[c].order_number,
                        generate_order_number(
                          CountToday(orders, tx[c].restaurant_id, today), today)),
                   today)
  /\ tx' = [tx EXCEPT ![c] = Idle]
  /\ UNCHANGED <<today, now, order_items, menu_items, combo_meals, customers, probe, platform>>

\* midnight passes
NextDay ==
  /\ today < MaxDay
  /\ today' = today + 1
  /\ UNCHANGED <<now, orders, tx, order_items, menu_items, combo_meals,
                 customers, last, probe, platform>>

InitOrders ==
  /\ today = 1
  /\ now = 0
  /\ orders = {}
  /\ tx = [c \in Clients |-> Idle]
  /\ order_items = {}
  /\ menu_items = {}
  /\ combo_meals = {}
  /\ customers = << >>
  /\ last = NoOp
  /\ NoPlatform
  /\ probe = NoOp

NextOrders ==
  \/ \E c \in Clients, r \in Restaurants : GenerateOrderNumber(c, r)
  \/ \E c \in Clients, r \in Restaurants, s \in {NullText, EmptyText} :
       BeginCreateOrder(c, r, s)
  \/ \E c \in Clients : CommitCreateOrder(c)
  \/ \E c \in Clients : CreateOrderSupplied(c)
  \/ NextDay

SpecOrders == InitOrders /\ [][NextOrders]_vars

(***************************************************************************)
(* set_order_number evaluated on a tenant that already has order_count     *)
(* orders today, for counts around every power of ten up to 10^MaxDigits.  *)
(***************************************************************************)
CountSamples ==
  {n \in UNION {{10^k - 2, 10^k - 1, 10^k} : k \in 0..MaxDigits} : n >= 0}

SuppliedSamples ==
  {NullText, EmptyText, <<"A", "-", "7">>, ClientOrderNumberText(1, 41)}

\* the BEFORE INSERT trigger runs on the new row
SetOrderNumberTrigger ==
  /\ probe.op = "insert"
  /\ probe' = [probe EXCEPT
       !.op = "inserted",
       !.order_number =
          set_order_number(probe.supplied,
                           generate_order_number(probe.order_count, probe.day))]
  /\ UNCHANGED <<today, now, orders, tx, order_items, menu_items, combo_meals,
                 customers, last, platform>>

InitNum ==
  /\ today = 1
  /\ now = 0
  /\ orders = {}
  /\ tx = [c \in Clients |-> Idle]
  /\ order_items = {}
  /\ menu_items = {}
  /\ combo_meals = {}
  /\ customers = << >>
  /\ last = NoOp
  /\ NoPlatform
  /\ probe \in [op : {"insert"}, order_count : CountSamples, day : 1..MaxDay,
                supplied : SuppliedSamples, order_number : {NullText}]

NextNum == SetOrderNumberTrigger

SpecNum == InitNum /\ [][NextNum]_vars

(***************************************************************************)
(* Order items: the row checks of table order_items, the service calls     *)
(* that write it, and the deletions that reach it through foreign keys.    *)
(***************************************************************************)
OK == "ok"
ErrItemReference == "P0001: Order item must reference either a menu item or combo meal, but not both"
ErrMenuItemRestaurant == "P0001: Menu item does not belong to the same restaurant as the order"
ErrComboMealRestaurant == "P0001: Combo meal does not belong to the same restaurant as the order"
ErrCheckViolation == "23514: check_item_reference"
ErrForeignKey == "23503: foreign key"

\* CONSTRAINT check_item_reference CHECK (...)
check_item_reference(NEW_row) ==
  \/ (NEW_row.menu_item_id # NULL /\ NEW_row.combo_meal_id = NULL)
  \/ (NEW_row.menu_item_id = NULL /\ NEW_row.combo_meal_id # NULL)

\* validate_order_item without the comparison of restaurants
validate_order_item_AnyRestaurant(NEW_row, order_rows, menu_rows, combo_rows) ==
  IF \/ (NEW_row.menu_item_id = NULL /\ NEW_row.combo_meal_id = NULL)
     \/ (NEW_row.menu_item_id # NULL /\ NEW_row.combo_meal_id # NULL)
  THEN ErrItemReference
  ELSE IF /\ NEW_row.menu_item_id # NULL
          /\ ~ \E mi \in menu_rows, o \in order_rows :
                 o.id = NEW_row.order_id /\ mi.id = NEW_row.menu_item_id
  THEN ErrMenuItemRestaurant
  ELSE IF /\ NEW_row.combo_meal_id # NULL
          /\ ~ \E cm \in combo_rows, o \in order_rows :
                 o.id = NEW_row.order_id /\ cm.id = NEW_row.combo_meal_id
  THEN ErrComboMealRestaurant
  ELSE OK

\* trigger function validate_order_item: the exception it raises, or OK
validate_order_item(NEW_row, order_rows, menu_rows, combo_rows) ==
  IF \/ (NEW_row.menu_item_id = NULL /\ NEW_row.combo_meal_id = NULL)
     \/ (NEW_row.menu_item_id # NULL /\ NEW_row.combo_meal_id # NULL)
  THEN ErrItemReference
  ELSE IF /\ NEW_row.menu_item_id # NULL
          /\ ~ \E mi \in menu_rows, o \in order_rows :
                 /\ o.id = NEW_row.order_id
                 /\ mi.id = NEW_row.menu_item_id
                 /\ mi.restaurant_id = o.restaurant_id
  THEN ErrMenuItemRestaurant
  ELSE IF /\ NEW_row.combo_meal_id # NULL
          /\ ~ \E cm \in combo_rows, o \in order_rows :
                 /\ o.id = NEW_row.order_id
                 /\ cm.id = NEW_row.combo_meal_id
                 /\ cm.restaurant_id = o.restaurant_id
  THEN ErrComboMealRestaurant
  ELSE OK

\* REFERENCES orders(id), menu_items(id), combo_meals(id)
ForeignKeysHold(NEW_row, order_rows, menu_rows, combo_rows) ==
  /\ \E o \in order_rows : o.id = NEW_row.order_id
  /\ NEW_row.menu_item_id # NULL => \E mi \in menu_rows : mi.id = NEW_row.menu_item_id
  /\ NEW_row.combo_meal_id # NULL => \E cm \in combo_rows : cm.id = NEW_row.combo_meal_id

\* the row checks with the either-or rule enforced nowhere
OrderItemRowError_NoEitherOr(NEW_row, order_rows, menu_rows, combo_rows) ==
  IF ~ForeignKeysHold(NEW_row, order_rows, menu_rows, combo_rows)
  THEN ErrForeignKey
  ELSE OK

\* what a new or updated row of order_items meets, in order: the BEFORE
\* INSERT OR UPDATE trigger, the CHECK constraint, the foreign keys
OrderItemRowError(NEW_row, order_rows, menu_rows, combo_rows) ==
  IF validate_order_item(NEW_row, order_rows, menu_rows, combo_rows) # OK
  THEN validate_order_item(NEW_row, order_rows, menu_rows, combo_rows)
  ELSE IF ~check_item_reference(NEW_row)
  THEN ErrCheckViolation
  ELSE IF ~ForeignKeysHold(NEW_row, order_rows, menu_rows, combo_rows)
  THEN ErrForeignKey
  ELSE OK

\* the error that aborts a statement writing these rows: that of the first
\* row that fails
StatementError(rows, order_rows, menu_rows, combo_rows) ==
  LET failing == {i \in 1..Len(rows) :
                    OrderItemRowError(rows[i], order_rows, menu_rows, combo_rows) # OK}
  IN IF failing = {} THEN OK
     ELSE OrderItemRowError(rows[CHOOSE i \in failing : \A j \in failing : i <= j],
                            order_rows, menu_rows, combo_rows)

RECURSIVE SetToSeq(_)
\* the rows of a set, in some order
SetToSeq(S) ==
  IF S = {} THEN << >>
  ELSE LET x == CHOOSE y \in S : TRUE IN <<x>> \o SetToSeq(S \ {x})

RECURSIVE WithFreshIds(_, _)
\* gen_random_uuid() for each inserted row: ids no stored item has
WithFreshIds(rows, used) ==
  IF rows = << >> THEN {}
  ELSE LET id == CHOOSE i \in 1..(MaxItems + MaxBatch) :
                   i \notin used /\ \A j \in 1..(i - 1) : j \in used
       IN {[id |-> id, order_id |-> Head(rows).order_id,
            menu_item_id |-> Head(rows).menu_item_id,
            combo_meal_id |-> Head(rows).combo_meal_id]}
          \cup WithFreshIds(Tail(rows), used \cup {id})

\* the request has a row with both references or with neither
BothOrNeither(rows) ==
  \E i \in 1..Len(rows) :
    (rows[i].menu_item_id = NULL) = (rows[i].combo_meal_id = NULL)

\* the request has a row whose one reference is a catalog entry of another
\* restaurant than the row's order
CrossTenant(rows) ==
  \E i \in 1..Len(rows), o \in orders :
    /\ o.id = rows[i].order_id
    /\ \/ /\ rows[i].combo_meal_id = NULL
          /\ \E mi \in menu_items :
               mi.id = rows[i].menu_item_id /\ mi.restaurant_id # o.restaurant_id
       \/ /\ rows[i].menu_item_id = NULL
          /\ \E cm \in combo_meals :
               cm.id = rows[i].combo_meal_id /\ cm.restaurant_id # o.restaurant_id

ItemWriteResult(op, rows) ==
  LET err == StatementError(rows, orders, menu_items, combo_meals) IN
  [op |-> op, ok |-> (err = OK), err |-> err,
   arg |-> [both_or_neither |-> BothOrNeither(rows), cross_tenant |-> CrossTenant(rows)]]

ItemInputs ==
  [order_id : 1..2, menu_item_id : {NULL, "m1", "m2"},
   combo_meal_id : {NULL, "k1"}]

\* OrderService.addOrderItems: one INSERT of all the rows, stored together or
\* not at all
AddOrderItems(orderItems) ==
  /\ Cardinality(order_items) + Len(orderItems) <= MaxItems
  /\ last' = ItemWriteResult("addOrderItems", orderItems)
  /\ order_items' =
       IF StatementError(orderItems, orders, menu_items, combo_meals) = OK
       THEN order_items \cup WithFreshIds(orderItems, {i.id : i \in order_items})
       ELSE order_items
  /\ UNCHANGED <<today, now, orders, tx, menu_items, combo_meals, customers, probe, platform>>

\* OrderService.updateOrderItem and updateOrderItemStatus: UPDATE of one row;
\* updates gives the row's references after the update
UpdateOrderItem(itemId, updates) ==
  /\ \E i \in order_items : i.id = itemId
  /\ LET NEW_row == [id |-> itemId, order_id |-> updates.order_id,
                 menu_item_id |-> updates.menu_item_id,
                 combo_meal_id |-> updates.combo_meal_id]
     IN /\ last' = ItemWriteResult("updateOrderItem", <<NEW_row>>)
        /\ order_items' =
             IF StatementError(<<NEW_row>>, orders, menu_items, combo_meals) = OK
             THEN {i \in order_items : i.id # itemId} \cup {NEW_row}
             ELSE order_items
  /\ UNCHANGED <<today, now, orders, tx, menu_items, combo_meals, customers, probe, platform>>

\* MenuService.deleteMenuItem: ON DELETE SET NULL updates the referencing
\* order items, and that update meets the row checks of order_items
DeleteMenuItem(id) ==
  /\ \E mi \in menu_items : mi.id = id
  /\ LET referencing == {i \in order_items : i.menu_item_id = id}
         updated == {[i EXCEPT !.menu_item_id = NULL] : i \in referencing}
         remaining == {mi \in menu_items : mi.id # id}
         err == StatementError(SetToSeq(updated), orders, remaining, combo_meals)
     IN /\ last' = [op |-> "deleteMenuItem", ok |-> (err = OK), err |-> err,
                    arg |-> [id |-> id, referenced |-> referencing # {}]]
        /\ IF err = OK
           THEN /\ menu_items' = remaining
                /\ order_items' = (order_items \ referencing) \cup updated
           ELSE UNCHANGED <<menu_items, order_items>>
  /\ UNCHANGED <<today, now, orders, tx, combo_meals, customers, probe, platform>>

\* MenuService.deleteComboMeal: as deleteMenuItem, on combo_meal_id
DeleteComboMeal(id) ==
  /\ \E cm \in combo_meals : cm.id = id
  /\ LET referencing == {i \in order_items : i.combo_meal_id = id}
         updated == {[i EXCEPT !.combo_meal_id = NULL] : i \in referencing}
         remaining == {cm \in combo_meals : cm.id # id}
         err == StatementError(SetToSeq(updated), orders, menu_items, remaining)
     IN /\ last' = [op |-> "deleteComboMeal", ok |-> (err = OK), err |-> err,
                    arg |-> [id |-> id, referenced |-> referencing # {}]]
        /\ IF err = OK
           THEN /\ combo_meals' = remaining
                /\ order_items' = (order_items \ referencing) \cup updated
           ELSE UNCHANGED <<combo_meals, order_items>>
  /\ UNCHANGED <<today, now, orders, tx, menu_items, customers, probe, platform>>

\* OrderService.deleteOrder: ON DELETE CASCADE removes the order's items
DeleteOrder(orderId) ==
  /\ \E o \in orders : o.id = orderId
  /\ orders' = {o \in orders : o.id # orderId}
  /\ order_items' = {i \in order_items : i.order_id # orderId}
  /\ last' = [op |-> "deleteOrder", ok |-> TRUE, err |-> OK,
              arg |-> [id |-> orderId]]
  /\ UNCHANGED <<today, now, tx, menu_items, combo_meals, customers, probe, platform>>

\* a store with an order of each restaurant, made on successive days, a menu
\* item of each restaurant and a combo meal of the first
InitItems ==
  /\ today = 2
  /\ now = 0
  /\ orders = {NewOrderRow(1, "rA", NULL, OrderNumberText(1, 0), 0, 1, 0),
               NewOrderRow(2, "rB", NULL, OrderNumberText(2, 0), 0, 2, 0)}
  /\ tx = [c \in Clients |-> Idle]
  /\ order_items = {}
  /\ menu_items = {[id |-> "m1", restaurant_id |-> "rA"],
                   [id |-> "m2", restaurant_id |-> "rB"]}
  /\ combo_meals = {[id |-> "k1", restaurant_id |-> "rA"]}
  /\ customers = << >>
  /\ last = NoOp
  /\ NoPlatform
  /\ probe = NoOp

NextItems ==
  \/ \E n \in 1..MaxBatch : \E orderItems \in [1..n -> ItemInputs] :
       AddOrderItems(orderItems)
  \/ \E itemId \in 1..(MaxItems + MaxBatch), updates \in ItemInputs :
       UpdateOrderItem(itemId, updates)
  \/ \E id \in {"m1", "m2"} : DeleteMenuItem(id)
  \/ \E id \in {"k1"} : DeleteComboMeal(id)
  \/ \E orderId \in 1..2 : DeleteOrder(orderId)

SpecItems == InitItems /\ [][NextItems]_vars

(***************************************************************************)
(* Customer statistics: the AFTER UPDATE trigger of table orders.          *)
(***************************************************************************)
CustomerIds == {"cu1", "cu2"}
Amounts == {2, 5}

\* customers.last_order_at while no order has set it
NullTime == -1

Max(a, b) == IF a >= b THEN a ELSE b

\* total_orders integer DEFAULT 0, total_spent decimal(10,2) DEFAULT 0.00,
\* last_order_at timestamptz
NewCustomerRow == [total_orders |-> 0, total_spent |-> 0, last_order_at |-> NullTime]

\* the counters of a customer, as SELECT total_orders, total_spent reads them
\* (those of a new customer when there is no such customer)
StatsOf(rows, customer_id) ==
  IF customer_id \in DOMAIN rows
  THEN [total_orders |-> rows[customer_id].total_orders,
        total_spent |-> rows[customer_id].total_spent]
  ELSE [total_orders |-> 0, total_spent |-> 0]

\* update_customer_stats adding the amount the order had before the update
update_customer_stats_OldAmount(OLD, NEW_row, rows) ==
  LET served ==
        IF NEW_row.status = "served" /\ (OLD.status = NULL \/ OLD.status # "served")
        THEN [rows EXCEPT ![NEW_row.customer_id] =
                [total_orders |-> @.total_orders + 1,
                 total_spent |-> @.total_spent + OLD.total_amount,
                 last_order_at |-> NEW_row.updated_at]]
        ELSE rows
  IN IF OLD.status = "served" /\ NEW_row.status = "cancelled"
     THEN [served EXCEPT ![NEW_row.customer_id] =
             [total_orders |-> Max(@.total_orders - 1, 0),
              total_spent |-> Max(@.total_spent - NEW_row.total_amount, 0),
              last_order_at |-> @.last_order_at]]
     ELSE served

\* update_customer_stats subtracting without GREATEST(..., 0)
update_customer_stats_NoFloor(OLD, NEW_row, rows) ==
  LET served ==
        IF NEW_row.status = "served" /\ (OLD.status = NULL \/ OLD.status # "served")
        THEN [rows EXCEPT ![NEW_row.customer_id] =
                [total_orders |-> @.total_orders + 1,
                 total_spent |-> @.total_spent + NEW_row.total_amount,
                 last_order_at |-> NEW_row.updated_at]]
        ELSE rows
  IN IF OLD.status = "served" /\ NEW_row.status = "cancelled"
     THEN [served EXCEPT ![NEW_row.customer_id] =
             [total_orders |-> @.total_orders - 1,
              total_spent |-> @.total_spent - NEW_row.total_amount,
              last_order_at |-> @.last_order_at]]
     ELSE served

\* update_customer_stats counting every update that leaves the status served
update_customer_stats_NoOldTest(OLD, NEW_row, rows) ==
  LET served ==
        IF NEW_row.status = "served"
        THEN [rows EXCEPT ![NEW_row.customer_id] =
                [total_orders |-> @.total_orders + 1,
                 total_spent |-> @.total_spent + NEW_row.total_amount,
                 last_order_at |-> NEW_row.updated_at]]
        ELSE rows
  IN IF OLD.status = "served" /\ NEW_row.status = "cancelled"
     THEN [served EXCEPT ![NEW_row.customer_id] =
             [total_orders |-> Max(@.total_orders - 1, 0),
              total_spent |-> Max(@.total_spent - NEW_row.total_amount, 0),
              last_order_at |-> @.last_order_at]]
     ELSE served

\* trigger function update_customer_stats: table customers after it ran
update_customer_stats(OLD, NEW_row, rows) ==
  LET served ==
        IF NEW_row.status = "served" /\ (OLD.status = NULL \/ OLD.status # "served")
        THEN [rows EXCEPT ![NEW_row.customer_id] =
                [total_orders |-> @.total_orders + 1,
                 total_spent |-> @.total_spent + NEW_row.total_amount,
                 last_order_at |-> NEW_row.updated_at]]
        ELSE rows
  IN IF OLD.status = "served" /\ NEW_row.status = "cancelled"
     THEN [served EXCEPT ![NEW_row.customer_id] =
             [total_orders |-> Max(@.total_orders - 1, 0),
              total_spent |-> Max(@.total_spent - NEW_row.total_amount, 0),
              last_order_at |-> @.last_order_at]]
     ELSE served

\* update_customer_stats_trigger: AFTER UPDATE ON orders FOR EACH ROW
\* WHEN (NEW.customer_id IS NOT NULL)
update_customer_stats_trigger(OLD, NEW_row, rows) ==
  IF NEW_row.customer_id # NULL
  THEN update_customer_stats(OLD, NEW_row, rows)
  ELSE rows

\* update_updated_at_column: NEW.updated_at = now()
update_updated_at_column(NEW_row, clock) == [NEW_row EXCEPT !.updated_at = clock]

\* OrderService.createOrder with no other insert in flight: the BEFORE INSERT
\* trigger sets the number, the unique index accepts or rejects the row
CreateOrder(orderData) ==
  /\ Cardinality(orders) < MaxOrders
  /\ now < MaxClock
  /\ now' = now + 1
  /\ LET number == set_order_number(orderData.order_number,
                     generate_order_number(
                       CountToday(orders, orderData.restaurant_id, today), today))
         holders == OrderNumberHolders(orders, number)
     IN IF holders # {}
        THEN /\ orders' = orders
             /\ last' = [op |-> "createOrder", ok |-> FALSE, err |-> "23505",
                         arg |-> [id |-> 0, old_status |-> NULL]]
        ELSE /\ orders' = orders \cup
                  {NewOrderRow(FreshOrderId(orders), orderData.restaurant_id,
                               orderData.customer_id, number,
                               orderData.total_amount, today, now')}
             /\ last' = [op |-> "createOrder", ok |-> TRUE, err |-> OK,
                         arg |-> [id |-> FreshOrderId(orders), old_status |-> NULL]]
  /\ UNCHANGED <<today, tx, order_items, menu_items, combo_meals, customers, probe, platform>>

\* UPDATE of one order in a store where status served is final: such an
\* update is rejected
UpdateOrder_ServedIsFinal(orderId, updates) ==
  /\ now < MaxClock
  /\ now' = now + 1
  /\ \E OLD \in orders :
       /\ OLD.id = orderId
       /\ LET NEW_row == update_updated_at_column(
                           [OLD EXCEPT !.status = updates.status,
                                       !.customer_id = updates.customer_id,
                                       !.total_amount = updates.total_amount],
                           now')
              final == OLD.status = "served" /\ updates.status # "served"
          IN /\ orders' = IF final THEN orders ELSE (orders \ {OLD}) \cup {NEW_row}
             /\ customers' = IF final THEN customers
                             ELSE update_customer_stats_trigger(OLD, NEW_row, customers)
             /\ last' = [op |-> "updateOrder", ok |-> ~final,
                         err |-> IF final THEN "P0001" ELSE OK,
                         arg |-> [id |-> orderId, old_status |-> OLD.status,
                                  status |-> updates.status,
                                  before |-> StatsOf(customers, NEW_row.customer_id)]]
  /\ UNCHANGED <<today, tx, order_items, menu_items, combo_meals, probe, platform>>

\* OrderService.updateOrder and updateOrderStatus: UPDATE of one order;
\* updates gives status, customer_id and total_amount after the update
UpdateOrder(orderId, updates) ==
  /\ now < MaxClock
  /\ now' = now + 1
  /\ \E OLD \in orders :
       /\ OLD.id = orderId
       /\ LET NEW_row == update_updated_at_column(
                           [OLD EXCEPT !.status = updates.status,
                                       !.customer_id = updates.customer_id,
                                       !.total_amount = updates.total_amount],
                           now')
          IN /\ orders' = (orders \ {OLD}) \cup {NEW_row}
             /\ customers' = update_customer_stats_trigger(OLD, NEW_row, customers)
             /\ last' = [op |-> "updateOrder", ok |-> TRUE, err |-> OK,
                         arg |-> [id |-> orderId, old_status |-> OLD.status,
                                  status |-> updates.status,
                                  before |-> StatsOf(customers, NEW_row.customer_id)]]
  /\ UNCHANGED <<today, tx, order_items, menu_items, combo_meals, probe, platform>>

\* a store with the customers of a restaurant and no order yet
InitStats ==
  /\ today = 1
  /\ now = 0
  /\ orders = {}
  /\ tx = [c \in Clients |-> Idle]
  /\ order_items = {}
  /\ menu_items = {}
  /\ combo_meals = {}
  /\ customers = [c \in CustomerIds |-> NewCustomerRow]
  /\ last = NoOp
  /\ NoPlatform
  /\ probe = NoOp

NextStats ==
  \/ \E orderData \in [restaurant_id : {"rA"}, customer_id : CustomerIds \cup {NULL},
                       order_number : {NullText}, total_amount : Amounts] :
       CreateOrder(orderData)
  \/ \E orderId \in 1..MaxOrders :
       \E updates \in [status : OrderStatus, customer_id : CustomerIds \cup {NULL},
                       total_amount : Amounts] :
         UpdateOrder(orderId, updates)

SpecStats == InitStats /\ [][NextStats]_vars

(***************************************************************************)
(* The same order operations with deletion, on a store that already has an *)
(* order, and with amounts of either sign: orders.total_amount has no sign *)
(* constraint.                                                             *)
(***************************************************************************)
SignedAmounts == {-3, 5}

InitLedger ==
  /\ today = 1
  /\ now = 0
  /\ \E a \in SignedAmounts :
       orders = {NewOrderRow(1, "rA", "cu1", OrderNumberText(1, 0), a, 1, 0)}
  /\ tx = [c \in Clients |-> Idle]
  /\ order_items = {}
  /\ menu_items = {}
  /\ combo_meals = {}
  /\ customers = [c \in CustomerIds |-> NewCustomerRow]
  /\ last = NoOp
  /\ NoPlatform
  /\ probe = NoOp

NextLedger ==
  \/ \E orderData \in [restaurant_id : {"rA"}, customer_id : CustomerIds \cup {NULL},
                       order_number : {NullText}, total_amount : SignedAmounts] :
       CreateOrder(orderData)
  \/ \E orderId \in 1..MaxOrders :
       \E updates \in [status : OrderStatus, customer_id : CustomerIds \cup {NULL},
                       total_amount : SignedAmounts] :
         UpdateOrder(orderId, updates)
  \/ \E orderId \in 1..MaxOrders : DeleteOrder(orderId)

SpecLedger == InitLedger /\ [][NextLedger]_vars

\* INSERT INTO orders of a row that gives its status: the BEFORE INSERT
\* trigger sets the number, the unique index accepts or rejects the row; no
\* trigger of customer statistics is defined for INSERT
InsertOrder(orderData) ==
  /\ Cardinality(orders) < MaxOrders
  /\ now < MaxClock
  /\ now' = now + 1
  /\ LET number == set_order_number(orderData.order_number,
                     generate_order_number(
                       CountToday(orders, orderData.restaurant_id, today), today))
         NEW_row == [NewOrderRow(FreshOrderId(orders), orderData.restaurant_id,
                                 orderData.customer_id, number,
                                 orderData.total_amount, today, now')
                       EXCEPT !.status = orderData.status]
     IN IF OrderNumberHolders(orders, number) # {}
        THEN /\ orders' = orders
             /\ last' = [op |-> "insertOrder", ok |-> FALSE, err |-> "23505",
                         arg |-> [id |-> 0, old_status |-> NULL]]
        ELSE /\ orders' = orders \cup {NEW_row}
             /\ last' = [op |-> "insertOrder", ok |-> TRUE, err |-> OK,
                         arg |-> [id |-> NEW_row.id, old_status |-> NULL]]
  /\ UNCHANGED <<today, tx, order_items, menu_items, combo_meals, customers, probe, platform>>

NextInserts ==
  \/ \E orderData \in [restaurant_id : {"rA"}, customer_id : CustomerIds \cup {NULL},
                       order_number : {NullText}, total_amount : Amounts,
                       status : OrderStatus] :
       InsertOrder(orderData)
  \/ \E orderId \in 1..MaxOrders :
       \E updates \in [status : {"served", "cancelled"}, customer_id : {"cu1"},
                       total_amount : Amounts] :
         UpdateOrder(orderId, updates)

SpecInserts == InitStats /\ [][NextInserts]_vars

(***************************************************************************)
(* CustomerService: the operations that write table customers from the     *)
(* application, next to the trigger.                                       *)
(***************************************************************************)
StatFields == {"total_orders", "total_spent", "last_order_at"}

\* UPDATE customers SET <updates> WHERE id = customerId: the row after it
ApplyUpdates(row, updates) ==
  [f \in DOMAIN row |-> IF f \in DOMAIN updates THEN updates[f] ELSE row[f]]

\* CustomerService.createCustomer: INSERT of restaurant_id, name, email and
\* phone; the statistics take their column defaults
CreateCustomer(id) ==
  /\ id \notin DOMAIN customers
  /\ now < MaxClock
  /\ now' = now + 1
  /\ customers' = [c \in DOMAIN customers \cup {id} |->
                     IF c = id THEN NewCustomerRow ELSE customers[c]]
  /\ last' = [op |-> "createCustomer", ok |-> TRUE, err |-> OK, arg |-> [id |-> id]]
  /\ UNCHANGED <<today, orders, tx, order_items, menu_items, combo_meals, probe, platform>>

\* CustomerService.updateCustomer(customerId, updates: Partial<Customer>):
\* the columns named in updates are overwritten, the statistics among them
UpdateCustomer(customerId, updates) ==
  /\ customerId \in DOMAIN customers
  /\ now < MaxClock
  /\ now' = now + 1
  /\ customers' = [customers EXCEPT ![customerId] = ApplyUpdates(@, updates)]
  /\ last' = [op |-> "updateCustomer", ok |-> TRUE, err |-> OK,
              arg |-> [id |-> customerId]]
  /\ UNCHANGED <<today, orders, tx, order_items, menu_items, combo_meals, probe, platform>>

\* CustomerService.updateCustomerOrderStats, first half: getCustomerById
\* reads the customer's row into the client
GetCustomerById(c, customerId, orderAmount) ==
  /\ tx[c].pc = "idle"
  /\ customerId \in DOMAIN customers
  /\ now < MaxClock
  /\ tx' = [tx EXCEPT ![c] = [pc |-> "statsRead", customerId |-> customerId,
                              orderAmount |-> orderAmount,
                              customer |-> customers[customerId]]]
  /\ UNCHANGED <<today, now, orders, order_items, menu_items, combo_meals,
                 customers, last, probe, platform>>

\* CustomerService.updateCustomerOrderStats, second half: updateCustomer
\* writes the counters computed from the row that was read
UpdateCustomerOrderStats(c) ==
  /\ tx[c].pc = "statsRead"
  /\ now < MaxClock
  /\ now' = now + 1
  /\ LET updates == [total_orders |-> tx[c].customer.total_orders + 1,
                     total_spent |-> tx[c].customer.total_spent + tx[c].orderAmount,
                     last_order_at |-> now']
     IN customers' = [customers EXCEPT ![tx[c].customerId] = ApplyUpdates(@, updates)]
  /\ last' = [op |-> "updateCustomerOrderStats", ok |-> TRUE, err |-> OK,
              arg |-> [id |-> tx[c].customerId, orderAmount |-> tx[c].orderAmount,
                       read |-> [total_orders |-> tx[c].customer.total_orders,
                                 total_spent |-> tx[c].customer.total_spent]]]
  /\ tx' = [tx EXCEPT ![c] = Idle]
  /\ UNCHANGED <<today, orders, order_items, menu_items, combo_meals, probe, platform>>

\* OrderService.updateOrderStatus(orderId, status): updateOrder of the status
UpdateOrderStatus(orderId, status) ==
  \E o \in orders :
    /\ o.id = orderId
    /\ UpdateOrder(orderId, [status |-> status, customer_id |-> o.customer_id,
                             total_amount |-> o.total_amount])

\* a store with a customer who has two pending orders
InitCustomers ==
  /\ today = 1
  /\ now = 0
  /\ orders = {NewOrderRow(1, "rA", "cu1", OrderNumberText(1, 0), 5, 1, 0),
               NewOrderRow(2, "rA", "cu1", OrderNumberText(1, 1), 2, 1, 0)}
  /\ tx = [c \in Clients |-> Idle]
  /\ order_items = {}
  /\ menu_items = {}
  /\ combo_meals = {}
  /\ customers = [c \in {"cu1"} |-> NewCustomerRow]
  /\ last = NoOp
  /\ NoPlatform
  /\ probe = NoOp

\* values of Partial<Customer>: no statistics column, one, or two of them
CustomerUpdates ==
  UNION {[S -> {7}] : S \in {{}, {"total_orders"}, {"total_spent", "last_order_at"}}}

NextCustomers ==
  \/ \E id \in CustomerIds : CreateCustomer(id)
  \/ \E customerId \in CustomerIds :
       \E updates \in CustomerUpdates : UpdateCustomer(customerId, updates)
  \/ \E c \in Clients, customerId \in CustomerIds :
       GetCustomerById(c, customerId, 2)
  \/ \E c \in Clients : UpdateCustomerOrderStats(c)
  \/ \E orderId \in 1..2, status \in OrderStatus : UpdateOrderStatus(orderId, status)

SpecCustomers == InitCustomers /\ [][NextCustomers]_vars

\* the statistics updates alone: status updates of the customer's orders and
\* calls of updateCustomerOrderStats, from two clients
NextStatsRace ==
  \/ \E c \in Clients, orderAmount \in Amounts : GetCustomerById(c, "cu1", orderAmount)
  \/ \E c \in Clients : UpdateCustomerOrderStats(c)
  \/ \E orderId \in 1..2, status \in OrderStatus : UpdateOrderStatus(orderId, status)

SpecStatsRace == InitCustomers /\ [][NextStatsRace]_vars

(***************************************************************************)
(* Business hours: the store's is_revenue_center_open and the service's    *)
(* BusinessHoursService.isRevenueCenterOpen, evaluated on one table        *)
(* content, one check time and one time of the call.                       *)
(***************************************************************************)
\* a time of day, in seconds since midnight
TimeOfDay(h, m, sec) == (h * 60 + m) * 60 + sec

\* the times of day the evaluators are tried on
TimeSamples ==
  {TimeOfDay(2, 0, 0), TimeOfDay(2, 0, 30), TimeOfDay(10, 0, 0),
   TimeOfDay(22, 0, 0), TimeOfDay(23, 30, 0)}

\* a time column as the API returns it: 'HH:MM:SS'
TimeText(t) ==
  padStart(IntToText(t \div 3600), 2, "0") \o <<":">>
    \o padStart(IntToText((t \div 60) % 60), 2, "0") \o <<":">>
    \o padStart(IntToText(t % 60), 2, "0")

\* Date.prototype.toTimeString().slice(0, 5): 'HH:MM'
toTimeString_slice_0_5(t) == SubSeq(TimeText(t), 1, 5)

\* the code unit of a character of a time text
CharCode(ch) ==
  CHOOSE i \in 48..58 : (DigitChars \o <<":">>)[i - 47] = ch

RECURSIVE StringLess(_, _)
\* a < b on JavaScript strings: by code units, a proper prefix is smaller
StringLess(a, b) ==
  IF b = << >> THEN FALSE
  ELSE IF a = << >> THEN TRUE
  ELSE IF CharCode(Head(a)) # CharCode(Head(b))
  THEN CharCode(Head(a)) < CharCode(Head(b))
  ELSE StringLess(Tail(a), Tail(b))

StringLeq(a, b) == a = b \/ StringLess(a, b)

\* SELECT * FROM business_hours WHERE revenue_center_id = center_id
\*   AND day_of_week = day_of_week_num
BusinessHourRows(rows, center_id, day_of_week_num) ==
  {r \in rows : r.revenue_center_id = center_id /\ r.day_of_week = day_of_week_num}

\* is_revenue_center_open(center_id, check_time), called at sql_current_time.
\* The function declares a variable current_time and assigns check_time::time
\* to it, but in the comparisons the name current_time is the SQL keyword
\* CURRENT_TIME, the time of the call, which a variable cannot replace.
is_revenue_center_open(rows, center_id, check_time, sql_current_time) ==
  LET found == BusinessHourRows(rows, center_id, check_time.dow)
      business_hour == CHOOSE r \in found : TRUE
  IN IF found = {} THEN FALSE
     ELSE IF business_hour.is_closed THEN FALSE
     ELSE IF business_hour.open_time = NullTime \/ business_hour.close_time = NullTime
     THEN FALSE
     ELSE IF business_hour.close_time < business_hour.open_time
     THEN \/ sql_current_time >= business_hour.open_time
          \/ sql_current_time <= business_hour.close_time
     ELSE /\ sql_current_time >= business_hour.open_time
          /\ sql_current_time <= business_hour.close_time

\* BusinessHoursService.isRevenueCenterOpen(revenueCenterId, dateTime): the
\* times are compared as strings, 'HH:MM' against the columns' 'HH:MM:SS'
isRevenueCenterOpen(rows, revenueCenterId, dateTime) ==
  LET found == BusinessHourRows(rows, revenueCenterId, dateTime.dow)
      data == CHOOSE r \in found : TRUE
      currentTime == toTimeString_slice_0_5(dateTime.time)
  IN IF found = {} THEN FALSE
     ELSE IF data.is_closed THEN FALSE
     ELSE IF data.open_time = NullTime \/ data.close_time = NullTime THEN FALSE
     ELSE IF StringLess(TimeText(data.close_time), TimeText(data.open_time))
     THEN \/ StringLeq(TimeText(data.open_time), currentTime)
          \/ StringLeq(currentTime, TimeText(data.close_time))
     ELSE /\ StringLeq(TimeText(data.open_time), currentTime)
          /\ StringLeq(currentTime, TimeText(data.close_time))

\* SELECT is_revenue_center_open(center_id, check_time)
CallIsRevenueCenterOpen ==
  /\ probe.op = "check"
  /\ probe' = [probe EXCEPT
       !.op = "is_revenue_center_open",
       !.result = is_revenue_center_open(probe.business_hours, probe.center_id,
                                         probe.check_time, probe.sql_current_time)]
  /\ UNCHANGED <<today, now, orders, tx, order_items, menu_items, combo_meals,
                 customers, last, platform>>

\* BusinessHoursService.isRevenueCenterOpen(center_id, check_time)
CallServiceIsRevenueCenterOpen ==
  /\ probe.op = "check"
  /\ probe' = [probe EXCEPT
       !.op = "isRevenueCenterOpen",
       !.result = isRevenueCenterOpen(probe.business_hours, probe.center_id,
                                      probe.check_time)]
  /\ UNCHANGED <<today, now, orders, tx, order_items, menu_items, combo_meals,
                 customers, last, platform>>

\* business_hours: at most one row for (revenue center, day of week)
BusinessHoursTables ==
  {{}} \cup {{r} : r \in [revenue_center_id : {"rc1"}, day_of_week : {1},
                          open_time : TimeSamples \cup {NullTime},
                          close_time : TimeSamples \cup {NullTime},
                          is_closed : BOOLEAN]}

InitHours ==
  /\ today = 1
  /\ now = 0
  /\ orders = {}
  /\ tx = [c \in Clients |-> Idle]
  /\ order_items = {}
  /\ menu_items = {}
  /\ combo_meals = {}
  /\ customers = << >>
  /\ last = NoOp
  /\ NoPlatform
  /\ probe \in [op : {"check"}, business_hours : BusinessHoursTables,
                center_id : {"rc1"},
                check_time : [dow : {0, 1}, time : TimeSamples],
                sql_current_time : TimeSamples, result : {FALSE}]

NextHours == CallIsRevenueCenterOpen \/ CallServiceIsRevenueCenterOpen

SpecHours == InitHours /\ [][NextHours]_vars

(***************************************************************************)
(* Payments: the payment status the service derives from an order's        *)
(* payment rows.                                                           *)
(***************************************************************************)
PaymentStatus == {"pending", "completed", "failed", "refunded"}
PaymentAmounts == {40, 60}
OrderTotals == {40, 100}

RECURSIVE SumOfAmounts(_)
\* payments.reduce((sum, p) => sum + Number(p.amount), 0)
SumOfAmounts(orderPayments) ==
  IF orderPayments = << >> THEN 0
  ELSE Head(orderPayments).amount + SumOfAmounts(Tail(orderPayments))

\* payments.filter(p => p.status === status)
FilterByStatus(orderPayments, status) ==
  SelectSeq(orderPayments, LAMBDA p : p.status = status)

\* PaymentService.calculateOrderPaymentStatus(payments)
calculateOrderPaymentStatus(orderPayments) ==
  IF Len(orderPayments) = 0 THEN "pending"
  ELSE LET hasCompleted == \E i \in 1..Len(orderPayments) : orderPayments[i].status = "completed"
           hasPending == \E i \in 1..Len(orderPayments) : orderPayments[i].status = "pending"
           totalAmount == SumOfAmounts(orderPayments)
           completedAmount == SumOfAmounts(FilterByStatus(orderPayments, "completed"))
       IN IF completedAmount >= totalAmount THEN "completed"
          ELSE IF hasCompleted /\ hasPending THEN "partial"
          ELSE "pending"

\* the payment status of an order is derived from its payments
CalculateOrderPaymentStatus ==
  /\ probe.op = "payments"
  /\ probe' = [probe EXCEPT !.op = "calculated",
                            !.result = calculateOrderPaymentStatus(probe.payments)]
  /\ UNCHANGED <<today, now, orders, tx, order_items, menu_items, combo_meals,
                 customers, last, platform>>

\* a pending payment of the order is completed and the status derived anew
CompletePayment(i) ==
  /\ probe.op = "calculated"
  /\ i \in 1..Len(probe.payments)
  /\ probe.payments[i].status = "pending"
  /\ probe' = [probe EXCEPT
       !.payments[i].status = "completed",
       !.result = calculateOrderPaymentStatus(
                    [probe.payments EXCEPT ![i].status = "completed"])]
  /\ UNCHANGED <<today, now, orders, tx, order_items, menu_items, combo_meals,
                 customers, last, platform>>

\* OrderManagement.getPaymentStatus(payments): the text of the badge
getPaymentStatus(orderPayments) ==
  IF Len(orderPayments) = 0 THEN "Pending"
  ELSE LET hasCompleted == \E i \in 1..Len(orderPayments) : orderPayments[i].status = "completed"
           hasPending == \E i \in 1..Len(orderPayments) : orderPayments[i].status = "pending"
       IN IF hasCompleted /\ ~hasPending THEN "Paid"
          ELSE IF hasCompleted /\ hasPending THEN "Partial"
          ELSE "Pending"

\* the order-management page shows the payment status of the order
GetPaymentStatus ==
  /\ probe.op = "payments"
  /\ probe' = [probe EXCEPT !.op = "shown",
                            !.result = getPaymentStatus(probe.payments)]
  /\ UNCHANGED <<today, now, orders, tx, order_items, menu_items, combo_meals,
                 customers, last, platform>>

\* an order with its total and up to MaxPayments payments
InitPayments ==
  /\ today = 1
  /\ now = 0
  /\ orders = {}
  /\ tx = [c \in Clients |-> Idle]
  /\ order_items = {}
  /\ menu_items = {}
  /\ combo_meals = {}
  /\ customers = << >>
  /\ last = NoOp
  /\ NoPlatform
  /\ probe \in [op : {"payments"}, total_amount : OrderTotals,
                payments : UNION {[1..n -> [amount : PaymentAmounts,
                                            status : PaymentStatus]] : n \in 0..MaxPayments},
                result : {"pending"}]

NextPayments ==
  \/ CalculateOrderPaymentStatus
  \/ GetPaymentStatus
  \/ \E i \in 1..MaxPayments : CompletePayment(i)

SpecPayments == InitPayments /\ [][NextPayments]_vars

(***************************************************************************)
(* Tenant provisioning: the create-kitchen-owner endpoint. Each await of   *)
(* the handler is a step, so that two requests interleave.                 *)
(***************************************************************************)
Emails == {"e1", "e2"}

requiredFields ==
  {"email", "full_name", "subscription_plan", "payment_id", "subscription_amount",
   "subscription_expires_at"}

\* a request body with every field set
FullRequest(email) ==
  [email |-> email, full_name |-> "Owner", subscription_plan |-> "basic",
   payment_id |-> "pay", subscription_amount |-> 29,
   subscription_expires_at |-> "2026-08-11"]

\* request bodies: complete, without email, and with the amount 0
RequestSamples ==
  {FullRequest(e) : e \in Emails}
    \cup {[FullRequest("e1") EXCEPT !.email = ""],
          [FullRequest("e1") EXCEPT !.subscription_amount = 0]}

\* !requestData[field]
Falsy(requestData, field) ==
  IF field = "subscription_amount" THEN requestData[field] = 0
  ELSE requestData[field] = ""

\* the response that ends a request
Respond(q, status, error) ==
  [pc |-> "done", status |-> status, error |-> error, email |-> req[q].email,
   existingOwner |-> req[q].existingOwner,
   identityMissing |-> req[q].identityMissing]

\* POST: the required fields are validated, then kitchen_owners is searched
\* for the email; identityMissing notes whether an account of the identity
\* provider has that email at this moment
CheckExistingOwner(q, requestData) ==
  /\ req[q].pc = "idle"
  /\ LET existingOwner == \E o \in kitchen_owners : o.email = requestData.email
         seen == [pc |-> "insertOwner", email |-> requestData.email,
                  existingOwner |-> existingOwner,
                  identityMissing |->
                    ~ \E a \in auth_users : a.email = requestData.email]
     IN req' = [req EXCEPT ![q] =
          IF \E field \in requiredFields : Falsy(requestData, field)
          THEN [pc |-> "done", status |-> 400, error |-> "Missing required field",
                email |-> requestData.email, existingOwner |-> FALSE,
                identityMissing |-> FALSE]
          ELSE IF existingOwner
          THEN [seen EXCEPT !.pc = "done"]
                 @@ [status |-> 409,
                     error |-> "Kitchen owner with this email already exists"]
          ELSE seen]
  /\ UNCHANGED <<today, now, orders, tx, order_items, menu_items, combo_meals,
                 customers, last, probe, kitchen_owners, auth_users, users, payments,
                 restaurants, business_hours>>

\* insert into kitchen_owners: email is UNIQUE; the new row has no user_id
InsertKitchenOwner(q) ==
  /\ req[q].pc = "insertOwner"
  /\ IF \E o \in kitchen_owners : o.email = req[q].email
     THEN /\ req' = [req EXCEPT ![q] = Respond(q, 500, "Failed to create kitchen owner")]
          /\ UNCHANGED kitchen_owners
     ELSE /\ kitchen_owners' = kitchen_owners \cup
               {[id |-> q, email |-> req[q].email, user_id |-> NULL]}
          /\ req' = [req EXCEPT ![q].pc = "createUser"]
  /\ UNCHANGED <<today, now, orders, tx, order_items, menu_items, combo_meals,
                 customers, last, probe, auth_users, users, payments,
                 restaurants, business_hours>>

\* supabase.auth.admin.createUser: refused when an account has the email, or
\* when the identity provider does not accept the request
CreateAuthUser(q, accepted) ==
  /\ req[q].pc = "createUser"
  /\ IF accepted /\ ~ \E a \in auth_users : a.email = req[q].email
     THEN /\ auth_users' = auth_users \cup {[id |-> q, email |-> req[q].email]}
          /\ req' = [req EXCEPT ![q].pc = "insertUser"]
     ELSE /\ UNCHANGED auth_users
          /\ req' = [req EXCEPT ![q].pc = "cleanUp"]
  /\ UNCHANGED <<today, now, orders, tx, order_items, menu_items, combo_meals,
                 customers, last, probe, kitchen_owners, users, payments,
                 restaurants, business_hours>>

\* delete from kitchen_owners where id = kitchenOwner.id, without the delete
DeleteKitchenOwner_Skipped(rows, id) == rows

\* delete from kitchen_owners where id = kitchenOwner.id
DeleteKitchenOwner(rows, id) == {o \in rows : o.id # id}

\* the owner record is cleaned up after the account could not be created
CleanUpKitchenOwner(q) ==
  /\ req[q].pc = "cleanUp"
  /\ kitchen_owners' = DeleteKitchenOwner(kitchen_owners, q)
  /\ req' = [req EXCEPT ![q] = Respond(q, 500, "Failed to create user account")]
  /\ UNCHANGED <<today, now, orders, tx, order_items, menu_items, combo_meals,
                 customers, last, probe, auth_users, users, payments,
                 restaurants, business_hours>>

\* insert into users: email and auth_user_id are UNIQUE; an error is only
\* logged
InsertUserRecord(q) ==
  /\ req[q].pc = "insertUser"
  /\ users' =
       IF \E u \in users : u.email = req[q].email \/ u.auth_user_id = q
       THEN users
       ELSE users \cup {[auth_user_id |-> q, email |-> req[q].email,
                         role |-> "kitchen_owner", restaurant_id |-> NULL]}
  /\ req' = [req EXCEPT ![q].pc = "linkOwner"]
  /\ UNCHANGED <<today, now, orders, tx, order_items, menu_items, combo_meals,
                 customers, last, probe, kitchen_owners, auth_users, payments,
                 restaurants, business_hours>>

\* update kitchen_owners set user_id where id = kitchenOwner.id, then 201
LinkKitchenOwner(q) ==
  /\ req[q].pc = "linkOwner"
  /\ kitchen_owners' = {IF o.id = q THEN [o EXCEPT !.user_id = q] ELSE o :
                          o \in kitchen_owners}
  /\ req' = [req EXCEPT ![q] = Respond(q, 201, "")]
  /\ UNCHANGED <<today, now, orders, tx, order_items, menu_items, combo_meals,
                 customers, last, probe, auth_users, users, payments,
                 restaurants, business_hours>>

InitProvisioning ==
  /\ today = 1
  /\ now = 0
  /\ orders = {}
  /\ tx = [c \in Clients |-> Idle]
  /\ order_items = {}
  /\ menu_items = {}
  /\ combo_meals = {}
  /\ customers = << >>
  /\ last = NoOp
  /\ probe = NoOp
  /\ NoPlatform

NextProvisioning ==
  \/ \E q \in Requests, requestData \in RequestSamples :
       CheckExistingOwner(q, requestData)
  \/ \E q \in Requests : InsertKitchenOwner(q)
  \/ \E q \in Requests, accepted \in BOOLEAN : CreateAuthUser(q, accepted)
  \/ \E q \in Requests : CleanUpKitchenOwner(q)
  \/ \E q \in Requests : InsertUserRecord(q)
  \/ \E q \in Requests : LinkKitchenOwner(q)

SpecProvisioning == InitProvisioning /\ [][NextProvisioning]_vars

\* AuthService.updateUserProfile(userId, updates) with updates = {email}:
\* UPDATE users SET email WHERE id = userId. The account of the identity
\* provider keeps its email. A users row is identified here by its
\* auth_user_id, which is unique as its id is; users.email is UNIQUE.
updateUserProfile(userId, updates) ==
  /\ \E u \in users : u.auth_user_id = userId
  /\ LET error == IF \E u \in users : u.auth_user_id # userId /\ u.email = updates.email
                  THEN "23505" ELSE OK
     IN /\ users' = IF error = OK
                    THEN {IF u.auth_user_id = userId
                          THEN [u EXCEPT !.email = updates.email] ELSE u : u \in users}
                    ELSE users
        /\ last' = [op |-> "updateUserProfile", ok |-> error = OK, err |-> error,
                    arg |-> [userId |-> userId, email |-> updates.email]]
  /\ last' # last
  /\ UNCHANGED <<today, now, orders, tx, order_items, menu_items, combo_meals,
                 customers, probe, kitchen_owners, auth_users, payments, req,
                 restaurants, business_hours>>

\* a store with one member of staff, whose account and users row have the
\* email e0
InitOnboarding ==
  /\ today = 1
  /\ now = 0
  /\ orders = {}
  /\ tx = [c \in Clients |-> Idle]
  /\ order_items = {}
  /\ menu_items = {}
  /\ combo_meals = {}
  /\ customers = << >>
  /\ last = NoOp
  /\ probe = NoOp
  /\ kitchen_owners = {}
  /\ auth_users = {[id |-> "s1", email |-> "e0"]}
  /\ users = {[auth_user_id |-> "s1", email |-> "e0", role |-> "manager",
               restaurant_id |-> "rA"]}
  /\ payments = {}
  /\ req = [q \in Requests |-> Idle]
  /\ restaurants = {}
  /\ business_hours = {}

\* the endpoint next to the profile update
NextOnboarding ==
  \/ NextProvisioning
  \/ \E email \in Emails \cup {"e0"} : updateUserProfile("s1", [email |-> email])

SpecOnboarding == InitOnboarding /\ [][NextOnboarding]_vars

(***************************************************************************)
(* Access control: statements of role authenticated on orders, order       *)
(* items, customers and payments under the row security policies.          *)
(***************************************************************************)
Callers == {"ua", "ub"}

ErrPolicyRecursion == "42P17"
ErrRowSecurity == "42501"

\* the relations that the policies of a relation query in a sub-select, were
\* the policies of users to query no relation
PolicyReferences_UsersNotQueried ==
  [users |-> {}, orders |-> {"users"}, customers |-> {"users"},
   order_items |-> {"orders", "users"}, payments |-> {"orders", "users"},
   kitchen_owners |-> {"users"}, restaurants |-> {"users", "kitchen_owners"}]

\* the relations that the policies of a relation query in a sub-select
PolicyReferences ==
  [users |-> {"users"}, orders |-> {"users"}, customers |-> {"users"},
   order_items |-> {"orders", "users"}, payments |-> {"orders", "users"},
   kitchen_owners |-> {"users"}, restaurants |-> {"users", "kitchen_owners"}]

RECURSIVE InfiniteRecursion(_, _)
\* the policies of rel are added to a query while those of activeRIRs are
\* being added: a relation met again is an error
InfiniteRecursion(rel, activeRIRs) ==
  \/ rel \in activeRIRs
  \/ \E sub \in PolicyReferences[rel] :
       InfiniteRecursion(sub, activeRIRs \cup {rel})

\* no statement of role authenticated ended for its policies
RowSecurityError_NoneRaised(rel) == OK

\* the error that ends a statement of role authenticated on rel before any
\* row is read
RowSecurityError(rel) ==
  IF InfiniteRecursion(rel, {}) THEN ErrPolicyRecursion ELSE OK

\* EXISTS (SELECT 1 FROM users WHERE users.auth_user_id = auth.uid()
\*         AND users.restaurant_id = <restaurant_id>)
restaurant_of_auth_uid(uid, restaurant_id) ==
  \E u \in users :
    /\ u.auth_user_id = uid
    /\ u.restaurant_id # NULL
    /\ restaurant_id # NULL
    /\ u.restaurant_id = restaurant_id

\* "Restaurant users can manage their orders"
manage_their_orders(uid, row) == restaurant_of_auth_uid(uid, row.restaurant_id)

\* "Restaurant users can manage their customers"
manage_their_customers(uid, row) == restaurant_of_auth_uid(uid, row.restaurant_id)

\* "Restaurant users can manage their order items"
manage_their_order_items(uid, row) ==
  \E o \in orders : o.id = row.order_id /\ restaurant_of_auth_uid(uid, o.restaurant_id)

\* "Restaurant users can manage their payments"
manage_their_payments(uid, row) ==
  \E o \in orders : o.id = row.order_id /\ restaurant_of_auth_uid(uid, o.restaurant_id)

NoRows == [orders |-> {}, order_items |-> {}, customers |-> {}, payments |-> {}]

\* the ids of the rows a SELECT returns: those its policy admits
VisibleRows(uid) ==
  [orders |-> {o.id : o \in {x \in orders : manage_their_orders(uid, x)}},
   order_items |-> {i.id : i \in {x \in order_items : manage_their_order_items(uid, x)}},
   customers |-> {c \in DOMAIN customers : manage_their_customers(uid, customers[c])},
   payments |-> {p.id : p \in {x \in payments : manage_their_payments(uid, x)}}]

\* what the inputs of a statement give: the columns of a new row
StatementData ==
  [restaurant_id : Restaurants, customer_id : CustomerIds \cup {NULL}, order_id : 1..2]

\* the answer to a statement: id and customer name the row it addressed
Answer(op, uid, table, id, customer, data, err, returned) ==
  [op |-> op, ok |-> (err = OK), err |-> err,
   arg |-> [uid |-> uid, table |-> table, id |-> id, customer |-> customer,
            data |-> data, returned |-> returned]]

\* SELECT * FROM <table>
SelectRows(uid, table) ==
  /\ last' = IF RowSecurityError(table) # OK
             THEN Answer("select", uid, table, 0, NULL, NULL, RowSecurityError(table), NoRows)
             ELSE Answer("select", uid, table, 0, NULL, NULL, OK,
                         [NoRows EXCEPT ![table] = VisibleRows(uid)[table]])
  /\ UNCHANGED <<today, now, orders, tx, order_items, menu_items, combo_meals,
                 customers, probe, platform>>

\* INSERT INTO orders: the BEFORE INSERT trigger, the policy as WITH CHECK,
\* the foreign key to customers, the unique order number
InsertOrderRow(uid, data) ==
  /\ Cardinality(orders) < MaxOrders
  /\ LET number == set_order_number(NullText,
                     generate_order_number(
                       CountToday(orders, data.restaurant_id, today), today))
         NEW_row == NewOrderRow(FreshOrderId(orders), data.restaurant_id,
                                data.customer_id, number, 5, today, now)
         err == IF RowSecurityError("orders") # OK THEN RowSecurityError("orders")
                ELSE IF ~manage_their_orders(uid, NEW_row) THEN ErrRowSecurity
                ELSE IF data.customer_id # NULL /\ data.customer_id \notin DOMAIN customers
                THEN ErrForeignKey
                ELSE IF OrderNumberHolders(orders, number) # {} THEN "23505"
                ELSE OK
     IN /\ orders' = IF err = OK THEN orders \cup {NEW_row} ELSE orders
        /\ last' = Answer("insert", uid, "orders", 0, NULL, data, err, NoRows)
  /\ UNCHANGED <<today, now, tx, order_items, menu_items, combo_meals,
                 customers, probe, platform>>

\* UPDATE customers by the trigger of orders, as the caller: the policy of
\* customers hides the customers of other restaurants from it
StatsTriggerAs(uid, OLD, NEW_row) ==
  IF /\ NEW_row.customer_id \in DOMAIN customers
     /\ manage_their_customers(uid, customers[NEW_row.customer_id])
  THEN [c \in DOMAIN customers |->
          update_customer_stats_trigger(OLD, NEW_row, customers)[c]
            @@ [restaurant_id |-> customers[c].restaurant_id]]
  ELSE customers

\* UPDATE orders SET restaurant_id, customer_id, status WHERE id = orderId:
\* the policy as USING on the stored row and as WITH CHECK on the new one
UpdateOrderRow(uid, orderId, data, status) ==
  /\ \E OLD \in orders :
       /\ OLD.id = orderId
       /\ LET NEW_row == update_updated_at_column(
                           [OLD EXCEPT !.restaurant_id = data.restaurant_id,
                                       !.customer_id = data.customer_id,
                                       !.status = status], now)
              seen == manage_their_orders(uid, OLD)
              err == IF RowSecurityError("orders") # OK THEN RowSecurityError("orders")
                     ELSE IF ~seen THEN OK
                     ELSE IF ~manage_their_orders(uid, NEW_row) THEN ErrRowSecurity
                     ELSE IF /\ data.customer_id # NULL
                             /\ data.customer_id \notin DOMAIN customers
                     THEN ErrForeignKey
                     ELSE OK
              stored == RowSecurityError("orders") = OK /\ seen /\ err = OK
          IN /\ orders' = IF stored THEN (orders \ {OLD}) \cup {NEW_row} ELSE orders
             /\ customers' = IF stored THEN StatsTriggerAs(uid, OLD, NEW_row)
                             ELSE customers
             /\ last' = Answer("update", uid, "orders", orderId, NULL, data, err, NoRows)
  /\ UNCHANGED <<today, now, tx, order_items, menu_items, combo_meals, probe, platform>>

\* DELETE FROM orders WHERE id = orderId; order_items and payments of the
\* order go with it (ON DELETE CASCADE, not subject to the policies)
DeleteOrderRow(uid, orderId) ==
  /\ LET gone == {o \in orders : /\ o.id = orderId
                                 /\ RowSecurityError("orders") = OK
                                 /\ manage_their_orders(uid, o)}
     IN /\ orders' = orders \ gone
        /\ order_items' = {i \in order_items : i.order_id \notin {o.id : o \in gone}}
        /\ payments' = {p \in payments : p.order_id \notin {o.id : o \in gone}}
        /\ last' = Answer("delete", uid, "orders", orderId, NULL, NULL,
                          RowSecurityError("orders"), NoRows)
  /\ UNCHANGED <<today, now, tx, menu_items, combo_meals, customers, probe,
                 kitchen_owners, auth_users, users, req,
                 restaurants, business_hours>>

\* INSERT INTO customers
InsertCustomerRow(uid, customerId, data) ==
  /\ customerId \notin DOMAIN customers
  /\ LET NEW_row == NewCustomerRow @@ [restaurant_id |-> data.restaurant_id]
         err == IF RowSecurityError("customers") # OK THEN RowSecurityError("customers")
                ELSE IF ~manage_their_customers(uid, NEW_row) THEN ErrRowSecurity
                ELSE OK
     IN /\ customers' = IF err = OK
                        THEN [c \in DOMAIN customers \cup {customerId} |->
                                IF c = customerId THEN NEW_row ELSE customers[c]]
                        ELSE customers
        /\ last' = Answer("insert", uid, "customers", 0, customerId, data, err, NoRows)
  /\ UNCHANGED <<today, now, orders, tx, order_items, menu_items, combo_meals,
                 probe, platform>>

\* UPDATE customers SET restaurant_id WHERE id = customerId
UpdateCustomerRow(uid, customerId, data) ==
  /\ customerId \in DOMAIN customers
  /\ LET NEW_row == [customers[customerId] EXCEPT !.restaurant_id = data.restaurant_id]
         seen == manage_their_customers(uid, customers[customerId])
         err == IF RowSecurityError("customers") # OK THEN RowSecurityError("customers")
                ELSE IF seen /\ ~manage_their_customers(uid, NEW_row) THEN ErrRowSecurity
                ELSE OK
     IN /\ customers' = IF RowSecurityError("customers") = OK /\ seen /\ err = OK
                        THEN [customers EXCEPT ![customerId] = NEW_row]
                        ELSE customers
        /\ last' = Answer("update", uid, "customers", 0, customerId, data, err, NoRows)
  /\ UNCHANGED <<today, now, orders, tx, order_items, menu_items, combo_meals,
                 probe, platform>>

\* DELETE FROM customers WHERE id = customerId; the orders of the customer
\* keep their row with customer_id NULL (ON DELETE SET NULL, not subject to
\* the policies)
DeleteCustomerRow(uid, customerId) ==
  /\ customerId \in DOMAIN customers
  /\ LET gone == /\ RowSecurityError("customers") = OK
                 /\ manage_their_customers(uid, customers[customerId])
     IN /\ customers' = IF gone
                        THEN [c \in DOMAIN customers \ {customerId} |-> customers[c]]
                        ELSE customers
        /\ orders' = IF gone
                     THEN {IF o.customer_id = customerId
                           THEN update_updated_at_column(
                                  [o EXCEPT !.customer_id = NULL], now)
                           ELSE o : o \in orders}
                     ELSE orders
        /\ last' = Answer("delete", uid, "customers", 0, customerId, NULL,
                          RowSecurityError("customers"), NoRows)
  /\ UNCHANGED <<today, now, tx, order_items, menu_items, combo_meals, probe, platform>>

\* INSERT INTO order_items: one row with a menu item
InsertOrderItemRow(uid, data, menuItemId) ==
  /\ Cardinality(order_items) < MaxItems + MaxBatch
  /\ LET row == [order_id |-> data.order_id, menu_item_id |-> menuItemId,
                 combo_meal_id |-> NULL]
         err == IF RowSecurityError("order_items") # OK
                THEN RowSecurityError("order_items")
                ELSE IF OrderItemRowError(row, orders, menu_items, combo_meals) # OK
                THEN OrderItemRowError(row, orders, menu_items, combo_meals)
                ELSE IF ~manage_their_order_items(uid, row) THEN ErrRowSecurity
                ELSE OK
     IN /\ order_items' = IF err = OK
                          THEN order_items \cup
                                 WithFreshIds(<<row>>, {i.id : i \in order_items})
                          ELSE order_items
        /\ last' = Answer("insert", uid, "order_items", 0, NULL, data, err, NoRows)
  /\ UNCHANGED <<today, now, orders, tx, menu_items, combo_meals, customers,
                 probe, platform>>

\* UPDATE order_items SET order_id WHERE id = itemId
UpdateOrderItemRow(uid, itemId, data) ==
  /\ \E OLD \in order_items :
       /\ OLD.id = itemId
       /\ LET NEW_row == [OLD EXCEPT !.order_id = data.order_id]
              seen == manage_their_order_items(uid, OLD)
              err == IF RowSecurityError("order_items") # OK
                     THEN RowSecurityError("order_items")
                     ELSE IF ~seen THEN OK
                     ELSE IF OrderItemRowError(NEW_row, orders, menu_items, combo_meals) # OK
                     THEN OrderItemRowError(NEW_row, orders, menu_items, combo_meals)
                     ELSE IF ~manage_their_order_items(uid, NEW_row) THEN ErrRowSecurity
                     ELSE OK
          IN /\ order_items' =
                  IF RowSecurityError("order_items") = OK /\ seen /\ err = OK
                  THEN (order_items \ {OLD}) \cup {NEW_row}
                  ELSE order_items
             /\ last' = Answer("update", uid, "order_items", itemId, NULL, data, err, NoRows)
  /\ UNCHANGED <<today, now, orders, tx, menu_items, combo_meals, customers,
                 probe, platform>>

\* DELETE FROM order_items WHERE id = itemId
DeleteOrderItemRow(uid, itemId) ==
  /\ order_items' = {i \in order_items :
                       ~ /\ i.id = itemId
                         /\ RowSecurityError("order_items") = OK
                         /\ manage_their_order_items(uid, i)}
  /\ last' = Answer("delete", uid, "order_items", itemId, NULL, NULL,
                    RowSecurityError("order_items"), NoRows)
  /\ UNCHANGED <<today, now, orders, tx, menu_items, combo_meals, customers,
                 probe, platform>>

\* gen_random_uuid() for a payment
FreshPaymentId(rows) ==
  CHOOSE i \in 1..(MaxPayments + 1) :
    /\ i \notin {p.id : p \in rows}
    /\ \A j \in 1..(i - 1) : j \in {p.id : p \in rows}

\* INSERT INTO payments: status defaults to 'pending'
InsertPaymentRow(uid, data, amount) ==
  /\ Cardinality(payments) <= MaxPayments
  /\ LET NEW_row == [id |-> FreshPaymentId(payments), order_id |-> data.order_id,
                     amount |-> amount, status |-> "pending"]
         err == IF RowSecurityError("payments") # OK THEN RowSecurityError("payments")
                ELSE IF ~manage_their_payments(uid, NEW_row) THEN ErrRowSecurity
                ELSE OK
     IN /\ payments' = IF err = OK THEN payments \cup {NEW_row} ELSE payments
        /\ last' = Answer("insert", uid, "payments", 0, NULL, data, err, NoRows)
  /\ UNCHANGED <<today, now, orders, tx, order_items, menu_items, combo_meals,
                 customers, probe, kitchen_owners, auth_users, users, req,
                 restaurants, business_hours>>

\* UPDATE payments SET order_id, status WHERE id = paymentId
UpdatePaymentRow(uid, paymentId, data, status) ==
  /\ \E OLD \in payments :
       /\ OLD.id = paymentId
       /\ LET NEW_row == [OLD EXCEPT !.order_id = data.order_id, !.status = status]
              seen == manage_their_payments(uid, OLD)
              err == IF RowSecurityError("payments") # OK
                     THEN RowSecurityError("payments")
                     ELSE IF ~seen THEN OK
                     ELSE IF ~ \E o \in orders : o.id = data.order_id THEN ErrForeignKey
                     ELSE IF ~manage_their_payments(uid, NEW_row) THEN ErrRowSecurity
                     ELSE OK
          IN /\ payments' =
                  IF RowSecurityError("payments") = OK /\ seen /\ err = OK
                  THEN (payments \ {OLD}) \cup {NEW_row}
                  ELSE payments
             /\ last' = Answer("update", uid, "payments", paymentId, NULL, data, err, NoRows)
  /\ UNCHANGED <<today, now, orders, tx, order_items, menu_items, combo_meals,
                 customers, probe, kitchen_owners, auth_users, users, req,
                 restaurants, business_hours>>

\* DELETE FROM payments WHERE id = paymentId
DeletePaymentRow(uid, paymentId) ==
  /\ payments' = {p \in payments :
                    ~ /\ p.id = paymentId
                      /\ RowSecurityError("payments") = OK
                      /\ manage_their_payments(uid, p)}
  /\ last' = Answer("delete", uid, "payments", paymentId, NULL, NULL,
                    RowSecurityError("payments"), NoRows)
  /\ UNCHANGED <<today, now, orders, tx, order_items, menu_items, combo_meals,
                 customers, probe, kitchen_owners, auth_users, users, req,
                 restaurants, business_hours>>

\* two restaurants, each with a member of staff, a customer, an order of that
\* customer with one item, and a payment of the order
InitTenants ==
  /\ today = 1
  /\ now = 1
  /\ users = {[auth_user_id |-> "ua", email |-> "e1", role |-> "staff",
               restaurant_id |-> "rA"],
              [auth_user_id |-> "ub", email |-> "e2", role |-> "staff",
               restaurant_id |-> "rB"]}
  /\ customers = [c \in CustomerIds |->
                    NewCustomerRow @@
                      [restaurant_id |-> IF c = "cu1" THEN "rA" ELSE "rB"]]
  /\ orders = {NewOrderRow(1, "rA", "cu1", OrderNumberText(0, 0), 5, 0, 0),
               NewOrderRow(2, "rB", "cu2", OrderNumberText(0, 1), 5, 0, 0)}
  /\ menu_items = {[id |-> "m1", restaurant_id |-> "rA"],
                   [id |-> "m2", restaurant_id |-> "rB"]}
  /\ combo_meals = {}
  /\ order_items = {[id |-> 1, order_id |-> 1, menu_item_id |-> "m1",
                     combo_meal_id |-> NULL],
                    [id |-> 2, order_id |-> 2, menu_item_id |-> "m2",
                     combo_meal_id |-> NULL]}
  /\ payments = {[id |-> 1, order_id |-> 1, amount |-> 40, status |-> "pending"],
                 [id |-> 2, order_id |-> 2, amount |-> 40, status |-> "pending"]}
  /\ tx = [c \in Clients |-> Idle]
  /\ last = NoOp
  /\ probe = NoOp
  /\ kitchen_owners = {}
  /\ auth_users = {[id |-> "ua", email |-> "e1"], [id |-> "ub", email |-> "e2"]}
  /\ req = [q \in Requests |-> Idle]
  /\ restaurants = {}
  /\ business_hours = {}

NextTenants ==
  \/ \E uid \in Callers, table \in DOMAIN NoRows : SelectRows(uid, table)
  \/ \E uid \in Callers, data \in StatementData : InsertOrderRow(uid, data)
  \/ \E uid \in Callers, orderId \in 1..MaxOrders, data \in StatementData,
        status \in {"pending", "served"} : UpdateOrderRow(uid, orderId, data, status)
  \/ \E uid \in Callers, orderId \in 1..MaxOrders : DeleteOrderRow(uid, orderId)
  \/ \E uid \in Callers, customerId \in CustomerIds \cup {"cu3"},
        data \in StatementData : InsertCustomerRow(uid, customerId, data)
  \/ \E uid \in Callers, customerId \in CustomerIds, data \in StatementData :
       UpdateCustomerRow(uid, customerId, data)
  \/ \E uid \in Callers, customerId \in CustomerIds : DeleteCustomerRow(uid, customerId)
  \/ \E uid \in Callers, data \in StatementData, menuItemId \in {"m1", "m2"} :
       InsertOrderItemRow(uid, data, menuItemId)
  \/ \E uid \in Callers, itemId \in 1..(MaxItems + MaxBatch), data \in StatementData :
       UpdateOrderItemRow(uid, itemId, data)
  \/ \E uid \in Callers, itemId \in 1..(MaxItems + MaxBatch) :
       DeleteOrderItemRow(uid, itemId)
  \/ \E uid \in Callers, data \in StatementData, amount \in PaymentAmounts :
       InsertPaymentRow(uid, data, amount)
  \/ \E uid \in Callers, paymentId \in 1..(MaxPayments + 1), data \in StatementData,
        status \in {"pending", "completed"} :
       UpdatePaymentRow(uid, paymentId, data, status)
  \/ \E uid \in Callers, paymentId \in 1..(MaxPayments + 1) :
       DeletePaymentRow(uid, paymentId)

SpecTenants == InitTenants /\ [][NextTenants]_vars

(***************************************************************************)
(* Access control of table restaurants: RestaurantService under the        *)
(* policies of restaurants.                                                *)
(***************************************************************************)
RestaurantStatus == {"active", "inactive", "suspended"}

RestaurantCallers == {"sa", "ko", "mg", "st"}

\* "Super admins can manage all restaurants"
super_admins_manage_all_restaurants(uid) ==
  \E u \in users : u.auth_user_id = uid /\ u.role = "super_admin"

\* "Kitchen owners can manage their restaurants"
kitchen_owners_manage_their_restaurants(uid, row) ==
  \E ko \in kitchen_owners, u \in users :
    /\ u.auth_user_id = uid
    /\ ko.id = row.owner_id
    /\ ko.user_id = u.auth_user_id

\* "Restaurant staff can read their restaurant"
restaurant_staff_can_read(uid, row) ==
  \E u \in users : u.auth_user_id = uid /\ u.restaurant_id = row.id

\* the policies FOR ALL, as USING and as WITH CHECK of an UPDATE
RestaurantWritable(uid, row) ==
  \/ super_admins_manage_all_restaurants(uid)
  \/ kitchen_owners_manage_their_restaurants(uid, row)

RestaurantAnswer(op, uid, id, status, err, returned) ==
  [op |-> op, ok |-> (err = OK), err |-> err,
   arg |-> [uid |-> uid, id |-> id, status |-> status, returned |-> returned]]

\* RestaurantService.getAllRestaurants
GetAllRestaurants(uid) ==
  /\ last' =
       IF RowSecurityError("restaurants") # OK
       THEN RestaurantAnswer("getAllRestaurants", uid, NULL, NULL,
                             RowSecurityError("restaurants"), {})
       ELSE RestaurantAnswer("getAllRestaurants", uid, NULL, NULL, OK,
              {r.id : r \in {x \in restaurants :
                               \/ RestaurantWritable(uid, x)
                               \/ restaurant_staff_can_read(uid, x)}})
  /\ UNCHANGED <<today, now, orders, tx, order_items, menu_items, combo_meals,
                 customers, probe, platform>>

\* RestaurantService.updateRestaurant with {status}, and updateRestaurantStatus:
\* UPDATE restaurants SET status WHERE id, then .select().single()
UpdateRestaurantStatus(uid, id, status) ==
  /\ LET hit == {r \in restaurants : r.id = id /\ RestaurantWritable(uid, r)}
         err == IF RowSecurityError("restaurants") # OK
                THEN RowSecurityError("restaurants")
                ELSE IF hit = {} THEN "PGRST116"
                ELSE OK
     IN /\ restaurants' =
             IF err = OK
             THEN {IF r \in hit THEN [r EXCEPT !.status = status] ELSE r :
                     r \in restaurants}
             ELSE restaurants
        /\ last' = RestaurantAnswer("updateRestaurant", uid, id, status, err, {})
  /\ UNCHANGED <<today, now, orders, tx, order_items, menu_items, combo_meals,
                 customers, probe, kitchen_owners, auth_users, users, payments,
                 req, business_hours>>

\* the platform operator, and an owner, a manager and a member of staff of
\* restaurant rA; restaurant rB has another owner
InitRestaurants ==
  /\ today = 1
  /\ now = 0
  /\ orders = {}
  /\ tx = [c \in Clients |-> Idle]
  /\ order_items = {}
  /\ menu_items = {}
  /\ combo_meals = {}
  /\ customers = << >>
  /\ last = NoOp
  /\ probe = NoOp
  /\ payments = {}
  /\ req = [q \in Requests |-> Idle]
  /\ business_hours = {}
  /\ auth_users = {[id |-> a, email |-> a] : a \in RestaurantCallers}
  /\ users = {[auth_user_id |-> "sa", email |-> "sa", role |-> "super_admin",
               restaurant_id |-> NULL],
              [auth_user_id |-> "ko", email |-> "ko", role |-> "kitchen_owner",
               restaurant_id |-> "rA"],
              [auth_user_id |-> "mg", email |-> "mg", role |-> "manager",
               restaurant_id |-> "rA"],
              [auth_user_id |-> "st", email |-> "st", role |-> "staff",
               restaurant_id |-> "rA"]}
  /\ kitchen_owners = {[id |-> "q1", email |-> "ko", user_id |-> "ko"],
                       [id |-> "q2", email |-> "e2", user_id |-> NULL]}
  /\ \E sA \in RestaurantStatus, sB \in RestaurantStatus :
       restaurants = {[id |-> "rA", owner_id |-> "q1", status |-> sA],
                      [id |-> "rB", owner_id |-> "q2", status |-> sB]}

NextRestaurants ==
  \/ \E uid \in RestaurantCallers : GetAllRestaurants(uid)
  \/ \E uid \in RestaurantCallers, id \in Restaurants, status \in RestaurantStatus :
       UpdateRestaurantStatus(uid, id, status)

SpecRestaurants == InitRestaurants /\ [][NextRestaurants]_vars

(***************************************************************************)
(* The super-admin utilities: createSuperAdmin, createMissingAuthUser and  *)
(* debugSuperAdmin, each run from its first statement to its last.         *)
(***************************************************************************)
adminEmail == "admin@kitchenpos.com"

\* the account of the identity provider with the admin email, as
\* listUsers().users.find(u => u.email === adminEmail) gives it
AdminAccounts == {a \in auth_users : a.email = adminEmail}

\* select * from users where email = adminEmail and role = 'super_admin'
AdminRecords == {u \in users : u.email = adminEmail /\ u.role = "super_admin"}

\* auth.admin.createUser({email: adminEmail, email_confirm: true})
NewAdminAccount == [id |-> "a1", email |-> adminEmail, email_confirmed |-> TRUE]

\* the users row the utilities insert
NewAdminRecord(auth_user_id) ==
  [auth_user_id |-> auth_user_id, email |-> adminEmail, role |-> "super_admin",
   restaurant_id |-> NULL]

\* insert into users: email and auth_user_id are UNIQUE
InsertUserFails(row) ==
  \E u \in users : u.email = row.email \/ u.auth_user_id = row.auth_user_id

\* update users set auth_user_id = id for the rows of the set
LinkRecords(rows, id) ==
  {IF u \in rows THEN [u EXCEPT !.auth_user_id = id] ELSE u : u \in users}

Ran(op, err) == [op |-> op, ok |-> (err = OK), err |-> err, arg |-> [none |-> TRUE]]

createSuperAdmin ==
  /\ now < MaxClock
  /\ now' = now + 1
  /\ IF AdminAccounts = {}
     THEN \* the account is created, then the record is inserted
          /\ auth_users' = auth_users \cup {NewAdminAccount}
          /\ IF InsertUserFails(NewAdminRecord(NewAdminAccount.id))
             THEN users' = users /\ last' = Ran("createSuperAdmin", "23505")
             ELSE /\ users' = users \cup {NewAdminRecord(NewAdminAccount.id)}
                  /\ last' = Ran("createSuperAdmin", OK)
     ELSE \* 'already registered': the record is looked up by email and role
          /\ UNCHANGED auth_users
          /\ LET existingUser == CHOOSE a \in AdminAccounts : TRUE
             IN IF AdminRecords # {}
                THEN users' = users /\ last' = Ran("createSuperAdmin", OK)
                ELSE IF InsertUserFails(NewAdminRecord(existingUser.id))
                THEN users' = users /\ last' = Ran("createSuperAdmin", "23505")
                ELSE /\ users' = users \cup {NewAdminRecord(existingUser.id)}
                     /\ last' = Ran("createSuperAdmin", OK)
  /\ UNCHANGED <<today, orders, tx, order_items, menu_items, combo_meals,
                 customers, probe, kitchen_owners, payments, req,
                 restaurants, business_hours>>

createMissingAuthUser ==
  /\ now < MaxClock
  /\ now' = now + 1
  /\ last' = Ran("createMissingAuthUser", OK)
  /\ IF AdminRecords = {}
     THEN UNCHANGED <<auth_users, users>>
     ELSE IF \E u \in AdminRecords, a \in auth_users :
                u.auth_user_id # NULL /\ a.id = u.auth_user_id
     THEN UNCHANGED <<auth_users, users>>
     ELSE IF AdminAccounts # {}
     THEN \* 'already registered': the account found by email is linked
          /\ UNCHANGED auth_users
          /\ users' = LinkRecords(AdminRecords, (CHOOSE a \in AdminAccounts : TRUE).id)
     ELSE /\ auth_users' = auth_users \cup {NewAdminAccount}
          /\ users' = LinkRecords(AdminRecords, NewAdminAccount.id)
  /\ UNCHANGED <<today, orders, tx, order_items, menu_items, combo_meals,
                 customers, probe, kitchen_owners, payments, req,
                 restaurants, business_hours>>

debugSuperAdmin ==
  /\ now < MaxClock
  /\ now' = now + 1
  /\ LET dbUsers == {u \in users : u.email = adminEmail} IN
     IF AdminAccounts = {}
     THEN /\ auth_users' = auth_users \cup {NewAdminAccount}
          /\ IF InsertUserFails(NewAdminRecord(NewAdminAccount.id))
             THEN users' = users /\ last' = Ran("debugSuperAdmin", "23505")
             ELSE /\ users' = users \cup {NewAdminRecord(NewAdminAccount.id)}
                  /\ last' = Ran("debugSuperAdmin", OK)
     ELSE LET authUser == CHOOSE a \in AdminAccounts : TRUE IN
          /\ last' = Ran("debugSuperAdmin", OK)
          /\ IF dbUsers = {}
             THEN /\ users' = users \cup {NewAdminRecord(authUser.id)}
                  /\ UNCHANGED auth_users
             ELSE IF \E u \in dbUsers : u.auth_user_id = NULL
             THEN /\ users' = LinkRecords(AdminRecords, authUser.id)
                  /\ UNCHANGED auth_users
             ELSE IF ~authUser.email_confirmed
             THEN /\ auth_users' = (auth_users \ {authUser})
                       \cup {[authUser EXCEPT !.email_confirmed = TRUE]}
                  /\ UNCHANGED users
             ELSE UNCHANGED <<auth_users, users>>
  /\ UNCHANGED <<today, orders, tx, order_items, menu_items, combo_meals,
                 customers, probe, kitchen_owners, payments, req,
                 restaurants, business_hours>>

\* every combination of: account present (confirmed or not) or absent, users
\* record present or absent, record linked to the account or to none; the
\* record has the admin email and is that of a super admin or of an owner
InitRepair ==
  /\ today = 1
  /\ now = 0
  /\ orders = {}
  /\ tx = [c \in Clients |-> Idle]
  /\ order_items = {}
  /\ menu_items = {}
  /\ combo_meals = {}
  /\ customers = << >>
  /\ last = NoOp
  /\ probe = NoOp
  /\ kitchen_owners = {}
  /\ payments = {}
  /\ req = [q \in Requests |-> Idle]
  /\ auth_users \in {{}} \cup {{[NewAdminAccount EXCEPT !.email_confirmed = b]} :
                                b \in BOOLEAN}
  /\ users \in {{}} \cup {{[NewAdminRecord(id) EXCEPT !.role = role]} :
                           id \in {NULL} \cup {a.id : a \in auth_users},
                           role \in {"super_admin", "kitchen_owner"}}
  /\ restaurants = {}
  /\ business_hours = {}

NextRepair ==
  \/ createSuperAdmin
  \/ createMissingAuthUser
  \/ debugSuperAdmin

SpecRepair == InitRepair /\ [][NextRepair]_vars

(***************************************************************************)
(* Replacing a restaurant's business hours: updateBusinessHours and the    *)
(* page's handleSave delete the stored rows and then insert the new ones,  *)
(* two statements with an await between them.                              *)
(***************************************************************************)
\* the elements of an array
Elements(array) == {array[i] : i \in DOMAIN array}

\* SELECT * FROM business_hours WHERE restaurant_id = restaurantId
HoursOf(rows, restaurantId) == {r \in rows : r.restaurant_id = restaurantId}

\* CreateBusinessHourData of restaurant rA
HourInputs ==
  [restaurant_id : {"rA"}, revenue_center_id : {"rc1"}, day_of_week : {0, 1},
   open_time : {TimeOfDay(10, 0, 0)}, close_time : {TimeOfDay(22, 0, 0)},
   is_closed : {FALSE}]

\* CreateBusinessHourData[] of one or two elements
HoursDataSamples ==
  {<<a>> : a \in HourInputs} \cup {<<a, b>> : a, b \in HourInputs}

\* INSERT INTO business_hours of all of hoursData, one statement: refused by
\* CHECK (day_of_week >= 0 AND day_of_week <= 6) and by
\* UNIQUE (revenue_center_id, day_of_week)
InsertHoursError(rows, hoursData) ==
  IF \E i \in DOMAIN hoursData :
       hoursData[i].day_of_week < 0 \/ hoursData[i].day_of_week > 6
  THEN "23514"
  ELSE IF \/ \E i, j \in DOMAIN hoursData :
               /\ i < j
               /\ hoursData[i].revenue_center_id = hoursData[j].revenue_center_id
               /\ hoursData[i].day_of_week = hoursData[j].day_of_week
          \/ \E i \in DOMAIN hoursData, r \in rows :
               /\ hoursData[i].revenue_center_id = r.revenue_center_id
               /\ hoursData[i].day_of_week = r.day_of_week
  THEN "23505"
  ELSE OK

\* updateBusinessHours(restaurantId, hoursData) up to its second await:
\* DELETE FROM business_hours WHERE restaurant_id = restaurantId.
\* previous is the restaurant's stored hours when the call began.
updateBusinessHours(c, restaurantId, hoursData) ==
  /\ tx[c].pc = "idle"
  /\ business_hours' = business_hours \ HoursOf(business_hours, restaurantId)
  /\ tx' = [tx EXCEPT ![c] = [pc |-> "createBusinessHours",
                              restaurantId |-> restaurantId,
                              hoursData |-> hoursData,
                              previous |-> HoursOf(business_hours, restaurantId)]]
  /\ UNCHANGED <<today, now, orders, order_items, menu_items, combo_meals,
                 customers, last, probe, kitchen_owners, auth_users, users,
                 payments, req, restaurants>>

\* createBusinessHours(hoursData), the rest of updateBusinessHours: the insert
\* of all rows; its error is thrown
createBusinessHours(c) ==
  /\ tx[c].pc = "createBusinessHours"
  /\ LET error == InsertHoursError(business_hours, tx[c].hoursData)
     IN /\ business_hours' = IF error = OK
                             THEN business_hours \cup Elements(tx[c].hoursData)
                             ELSE business_hours
        /\ last' = [op |-> "updateBusinessHours", ok |-> error = OK,
                    err |-> error,
                    arg |-> [restaurantId |-> tx[c].restaurantId,
                             previous |-> tx[c].previous,
                             hoursData |-> tx[c].hoursData]]
  /\ tx' = [tx EXCEPT ![c] = Idle]
  /\ UNCHANGED <<today, now, orders, order_items, menu_items, combo_meals,
                 customers, probe, kitchen_owners, auth_users, users,
                 payments, req, restaurants>>

\* a call of isRevenueCenterOpen(revenueCenterId, dateTime) at any moment
ObserveIsRevenueCenterOpen(revenueCenterId, dateTime) ==
  /\ probe' = [op |-> "isRevenueCenterOpen", dateTime |-> dateTime,
               result |-> isRevenueCenterOpen(business_hours, revenueCenterId,
                                              dateTime)]
  /\ probe' # probe
  /\ UNCHANGED <<today, now, orders, tx, order_items, menu_items, combo_meals,
                 customers, last, platform>>

\* the hours stored before: restaurant rA open on both days or closed on the
\* second, another restaurant's row next to them
InitReplaceHours ==
  /\ today = 1
  /\ now = 0
  /\ orders = {}
  /\ tx = [c \in Clients |-> Idle]
  /\ order_items = {}
  /\ menu_items = {}
  /\ combo_meals = {}
  /\ customers = << >>
  /\ last = NoOp
  /\ kitchen_owners = {}
  /\ auth_users = {}
  /\ users = {}
  /\ payments = {}
  /\ req = [q \in Requests |-> Idle]
  /\ restaurants = {}
  /\ probe = [op |-> "none"]
  /\ \E closed \in BOOLEAN :
       business_hours =
         {[restaurant_id |-> "rA", revenue_center_id |-> "rc1", day_of_week |-> 0,
           open_time |-> TimeOfDay(2, 0, 0), close_time |-> TimeOfDay(23, 30, 0),
           is_closed |-> FALSE],
          [restaurant_id |-> "rA", revenue_center_id |-> "rc1", day_of_week |-> 1,
           open_time |-> TimeOfDay(2, 0, 0), close_time |-> TimeOfDay(23, 30, 0),
           is_closed |-> closed],
          [restaurant_id |-> "rB", revenue_center_id |-> "rc2", day_of_week |-> 0,
           open_time |-> TimeOfDay(10, 0, 0), close_time |-> TimeOfDay(22, 0, 0),
           is_closed |-> FALSE]}

NextReplaceHours ==
  \/ \E c \in Clients, hoursData \in HoursDataSamples :
       updateBusinessHours(c, "rA", hoursData)
  \/ \E c \in Clients : createBusinessHours(c)
  \/ \E dow \in {0, 1} :
       ObserveIsRevenueCenterOpen("rc1", [dow |-> dow, time |-> TimeOfDay(10, 0, 0)])

SpecReplaceHours == InitReplaceHours /\ [][NextReplaceHours]_vars

(***************************************************************************)
(* CustomerService.findOrCreateCustomer: a lookup by email, a lookup by    *)
(* phone and an insert or an update, each its own request to the store.    *)
(* Table customers is held as the sequence of its rows, a row's id being   *)
(* its place; a name, email or phone that is not given is NULL.            *)
(***************************************************************************)
MaxCustomers == 2

\* customerInfo: { name?, email?, phone? }
CustomerInfos == [name : {"n1", NULL}, email : {"e1", NULL}, phone : {"p1", NULL}]

\* .single(): the row when the query yields exactly one; with none or
\* several the error is PGRST116, which getCustomerByEmail and
\* getCustomerByPhone answer with null (here the empty set)
SingleRow(rows, ids) ==
  IF Cardinality(ids) = 1 THEN {[id |-> i, row |-> rows[i]] : i \in ids} ELSE {}

\* getCustomerByEmail(restaurantId, email)
getCustomerByEmail(rows, restaurantId, email) ==
  SingleRow(rows, {i \in DOMAIN rows :
               rows[i].restaurant_id = restaurantId /\ rows[i].email = email})

\* getCustomerByPhone(restaurantId, phone)
getCustomerByPhone(rows, restaurantId, phone) ==
  SingleRow(rows, {i \in DOMAIN rows :
               rows[i].restaurant_id = restaurantId /\ rows[i].phone = phone})

\* findOrCreateCustomer(restaurantId, customerInfo) up to its first lookup:
\* if (customerInfo.email) customer = await getCustomerByEmail(...)
findOrCreateCustomer(c, restaurantId, customerInfo) ==
  /\ tx[c].pc = "idle"
  /\ tx' = [tx EXCEPT ![c] =
              [pc |-> "lookedUpEmail", restaurantId |-> restaurantId,
               customerInfo |-> customerInfo,
               customer |-> IF customerInfo.email # NULL
                            THEN getCustomerByEmail(customers, restaurantId,
                                                    customerInfo.email)
                            ELSE {}]]
  /\ UNCHANGED <<today, now, orders, order_items, menu_items, combo_meals,
                 customers, last, probe, platform>>

\* if (!customer && customerInfo.phone) customer = await getCustomerByPhone(...)
ThenGetCustomerByPhone(c) ==
  /\ tx[c].pc = "lookedUpEmail"
  /\ tx' = [tx EXCEPT ![c].pc = "lookedUp",
                      ![c].customer =
                         IF @ = {} /\ tx[c].customerInfo.phone # NULL
                         THEN getCustomerByPhone(customers, tx[c].restaurantId,
                                                 tx[c].customerInfo.phone)
                         ELSE @]
  /\ UNCHANGED <<today, now, orders, order_items, menu_items, combo_meals,
                 customers, last, probe, platform>>

\* if (!customer) customer = await createCustomer({restaurant_id, ...customerInfo})
ThenCreateCustomer(c) ==
  /\ tx[c].pc = "lookedUp"
  /\ tx[c].customer = {}
  /\ Len(customers) < MaxCustomers
  /\ customers' = Append(customers, [restaurant_id |-> tx[c].restaurantId,
                                     name |-> tx[c].customerInfo.name,
                                     email |-> tx[c].customerInfo.email,
                                     phone |-> tx[c].customerInfo.phone])
  /\ last' = [op |-> "findOrCreateCustomer", ok |-> TRUE, err |-> OK,
              arg |-> [restaurantId |-> tx[c].restaurantId,
                       email |-> tx[c].customerInfo.email,
                       customer |-> Len(customers) + 1]]
  /\ tx' = [tx EXCEPT ![c] = Idle]
  /\ UNCHANGED <<today, now, orders, order_items, menu_items, combo_meals,
                 probe, platform>>

\* the fields of customerInfo that are given and that the customer, as it was
\* read, has not
MissingFields(customer, customerInfo) ==
  {f \in {"name", "email", "phone"} : customerInfo[f] # NULL /\ customer[f] = NULL}

\* else: updateCustomer(customer.id, updates) when updates has a key; the
\* customer is returned
ThenUpdateCustomer(c) ==
  /\ tx[c].pc = "lookedUp"
  /\ tx[c].customer # {}
  /\ LET customer == CHOOSE found \in tx[c].customer : TRUE
         id == customer.id
         updates == MissingFields(customer.row, tx[c].customerInfo)
     IN /\ customers' = [customers EXCEPT ![id] =
                           [f \in DOMAIN @ |-> IF f \in updates
                                               THEN tx[c].customerInfo[f]
                                               ELSE @[f]]]
        /\ last' = [op |-> "findOrCreateCustomer", ok |-> TRUE, err |-> OK,
                    arg |-> [restaurantId |-> tx[c].restaurantId,
                             email |-> tx[c].customerInfo.email,
                             customer |-> id]]
  /\ tx' = [tx EXCEPT ![c] = Idle]
  /\ UNCHANGED <<today, now, orders, order_items, menu_items, combo_meals,
                 probe, platform>>

\* the customers stored before: none, one of restaurant rA without an email,
\* or one of another restaurant with the email
InitFindOrCreate ==
  /\ today = 1
  /\ now = 0
  /\ orders = {}
  /\ tx = [c \in Clients |-> Idle]
  /\ order_items = {}
  /\ menu_items = {}
  /\ combo_meals = {}
  /\ customers \in {<< >>,
                    <<[restaurant_id |-> "rA", name |-> NULL, email |-> NULL,
                       phone |-> "p1"]>>,
                    <<[restaurant_id |-> "rB", name |-> "n2", email |-> "e1",
                       phone |-> NULL]>>}
  /\ last = NoOp
  /\ NoPlatform
  /\ probe = NoOp

NextFindOrCreate ==
  \/ \E c \in Clients, customerInfo \in CustomerInfos :
       findOrCreateCustomer(c, "rA", customerInfo)
  \/ \E c \in Clients : ThenGetCustomerByPhone(c)
  \/ \E c \in Clients : ThenCreateCustomer(c)
  \/ \E c \in Clients : ThenUpdateCustomer(c)

SpecFindOrCreate == InitFindOrCreate /\ [][NextFindOrCreate]_vars

(***************************************************************************)
(* Claims about order numbers.                                             *)
(***************************************************************************)
\* the date prefix of an order number
NumberPrefix(number) == SubSeq(number, 1, 8)

\* n written with at least 4 digits, zeros in front
ZeroPadded4(n) ==
  IF n < 10 THEN <<"0", "0", "0">> \o IntToText(n)
  ELSE IF n < 100 THEN <<"0", "0">> \o IntToText(n)
  ELSE IF n < 1000 THEN <<"0">> \o IntToText(n)
  ELSE IntToText(n)

\* C1: when orders of one tenant are created concurrently on one day, every
\* creation succeeds (none is rejected because an order of the same tenant
\* already holds the number it computed), and the numbers the tenant's orders
\* carry for a date D are exactly D-0001 .. D-000N, no duplicate and no gap.
C1_ConcurrentCreationsSucceed ==
  /\ (last.op = "createOrder" /\ ~last.ok)
       => last.arg.holder # last.arg.restaurant_id
  /\ \A r \in Restaurants, d \in 1..MaxDay :
       LET held == {o.order_number : o \in
                      {x \in orders : /\ x.restaurant_id = r
                                      /\ NumberPrefix(x.order_number) = to_char_YYYYMMDD(d)}}
       IN held = {to_char_YYYYMMDD(d) \o <<"-">> \o ZeroPadded4(i) :
                    i \in 1..Cardinality(held)}

\* C2: an order inserted without a number (NULL or '') gets YYYYMMDD, a dash
\* and (count of the tenant's orders of the day + 1) zero-padded to 4 digits;
\* a number the caller supplies is left unchanged.
C2_AssignedNumber ==
  probe.op = "inserted" =>
    IF probe.supplied \in {NullText, EmptyText}
    THEN probe.order_number =
           to_char_YYYYMMDD(probe.day) \o <<"-">> \o ZeroPadded4(probe.order_count + 1)
    ELSE probe.order_number = probe.supplied

\* C3: the number computed for a tenant counts only the tenant's own orders
\* of the day, and a creation is never rejected because an order of another
\* tenant holds the same number.
C3_PerTenantPerDayScope ==
  /\ \A c \in Clients :
       tx[c].pc # "idle" =>
         tx[c].order_count <= CountToday(orders, tx[c].restaurant_id, tx[c].day)
  /\ (last.op = "createOrder" /\ ~last.ok)
       => last.arg.holder = last.arg.restaurant_id

(***************************************************************************)
(* Claims about order items.                                               *)
(***************************************************************************)
ItemWrites == {"addOrderItems", "updateOrderItem"}
CatalogDeletes == {"deleteMenuItem", "deleteComboMeal"}

\* C4: an insert or update of order items in which a row has both
\* menu_item_id and combo_meal_id set, or neither, is rejected with an error
\* and leaves table order_items unchanged.
C4_BothOrNeitherRejected ==
  [][(last'.op \in ItemWrites /\ last'.arg.both_or_neither)
       => (~last'.ok /\ last'.err # OK /\ order_items' = order_items)]_vars

\* an item write with a both-or-neither row has been answered
C4_Witness ==
  /\ last.op \in ItemWrites
  /\ last.arg.both_or_neither
  /\ ~last.arg.cross_tenant
  /\ order_items # {}

\* C5: an insert or update of order items in which a row references a menu
\* item or combo meal of another restaurant than the row's order is rejected
\* with an error and stores nothing.
C5_CrossTenantRejected ==
  [][(last'.op \in ItemWrites /\ last'.arg.cross_tenant)
       => (~last'.ok /\ last'.err # OK /\ order_items' = order_items)]_vars

\* an item write whose only fault is a reference across restaurants has been
\* answered
C5_Witness ==
  /\ last.op \in ItemWrites
  /\ last.arg.cross_tenant
  /\ ~last.arg.both_or_neither
  /\ last.err \in {ErrMenuItemRestaurant, ErrComboMealRestaurant}

\* C6: in every reachable state every stored order item references exactly
\* one of menu item and combo meal.
C6_ExactlyOneReference ==
  \A i \in order_items : (i.menu_item_id = NULL) # (i.combo_meal_id = NULL)

\* items are stored and the catalog entry one of them references was the
\* target of a deletion
C6_Witness ==
  /\ last.op \in CatalogDeletes
  /\ last.arg.referenced
  /\ Cardinality(order_items) = MaxItems

\* C7: deleting a menu item or combo meal that order items reference
\* succeeds: the entry is gone, no order item is deleted, and the items'
\* reference to it is null.
C7_DeleteReferencedSucceeds ==
  [][(last'.op \in CatalogDeletes /\ last'.arg.referenced)
       => /\ last'.ok
          /\ \A mi \in menu_items' :
               last'.op = "deleteMenuItem" => mi.id # last'.arg.id
          /\ \A cm \in combo_meals' :
               last'.op = "deleteComboMeal" => cm.id # last'.arg.id
          /\ {i.id : i \in order_items'} = {i.id : i \in order_items}
          /\ \A i \in order_items' :
               /\ last'.op = "deleteMenuItem" => i.menu_item_id # last'.arg.id
               /\ last'.op = "deleteComboMeal" => i.combo_meal_id # last'.arg.id]_vars

(***************************************************************************)
(* Claims about customer statistics.                                       *)
(***************************************************************************)
\* the step is an update of order OLD into NEW_row
IsUpdateOf(OLD, NEW_row) ==
  /\ last'.op = "updateOrder"
  /\ last'.arg.id = OLD.id
  /\ NEW_row.id = OLD.id
  /\ OLD \in orders
  /\ NEW_row \in orders'

IntoServed(OLD, NEW_row) == OLD.status # "served" /\ NEW_row.status = "served"
ServedToCancelled(OLD, NEW_row) == OLD.status = "served" /\ NEW_row.status = "cancelled"

\* C8: when an update moves an order that has a customer from a status other
\* than served to served, in that same step the customer's total_orders
\* grows by 1, total_spent by the order's total_amount, and last_order_at
\* becomes the order's updated_at.
C8_ServedIncrements ==
  [][\A OLD \in orders, NEW_row \in orders' :
       (/\ IsUpdateOf(OLD, NEW_row)
        /\ IntoServed(OLD, NEW_row)
        /\ NEW_row.customer_id # NULL)
       => customers'[NEW_row.customer_id] =
            [total_orders |-> customers[NEW_row.customer_id].total_orders + 1,
             total_spent |->
               customers[NEW_row.customer_id].total_spent + NEW_row.total_amount,
             last_order_at |-> NEW_row.updated_at]]_vars

\* an order with a customer has just been moved to served and the customer's
\* statistics show that one order
C8_Witness ==
  /\ last.op = "updateOrder"
  /\ last.arg.old_status \notin {"served", NULL}
  /\ \E o \in orders :
       /\ o.id = last.arg.id
       /\ o.status = "served"
       /\ o.customer_id # NULL
       /\ customers[o.customer_id].total_orders = 1
       /\ customers[o.customer_id].total_spent = o.total_amount
       /\ customers[o.customer_id].last_order_at = o.updated_at

\* C9: when an update moves an order that has a customer from served to
\* cancelled, the customer's total_orders becomes max(total_orders - 1, 0),
\* total_spent becomes max(total_spent - total_amount, 0), and last_order_at
\* stays.
C9_CancelDecrements ==
  [][\A OLD \in orders, NEW_row \in orders' :
       (/\ IsUpdateOf(OLD, NEW_row)
        /\ ServedToCancelled(OLD, NEW_row)
        /\ NEW_row.customer_id # NULL)
       => customers'[NEW_row.customer_id] =
            [total_orders |-> Max(customers[NEW_row.customer_id].total_orders - 1, 0),
             total_spent |->
               Max(customers[NEW_row.customer_id].total_spent - NEW_row.total_amount, 0),
             last_order_at |-> customers[NEW_row.customer_id].last_order_at]]_vars

\* a served order has just been cancelled and its customer's counters stand
\* at the floor, the last order time kept
C9_Witness ==
  /\ last.op = "updateOrder"
  /\ last.arg.old_status = "served"
  /\ \E o \in orders :
       /\ o.id = last.arg.id
       /\ o.status = "cancelled"
       /\ o.customer_id # NULL
       /\ customers[o.customer_id].total_orders = 0
       /\ customers[o.customer_id].total_spent = 0
       /\ customers[o.customer_id].last_order_at # NullTime

\* C10: an update of an order that neither moves it into served from another
\* status nor moves it from served to cancelled, or that leaves the order
\* without a customer, changes no customer's total_orders, total_spent or
\* last_order_at.
C10_OtherUpdatesNoEffect ==
  [][\A OLD \in orders, NEW_row \in orders' :
       (/\ IsUpdateOf(OLD, NEW_row)
        /\ \/ NEW_row.customer_id = NULL
           \/ (~IntoServed(OLD, NEW_row) /\ ~ServedToCancelled(OLD, NEW_row)))
       => customers' = customers]_vars

\* a served order with a customer has just been updated and is still served,
\* while the customer's counters are not zero
C10_Witness ==
  /\ last.op = "updateOrder"
  /\ last.arg.old_status = "served"
  /\ \E o \in orders :
       /\ o.id = last.arg.id
       /\ o.status = "served"
       /\ o.customer_id # NULL
       /\ customers[o.customer_id].total_orders = 1

\* C11: in every reachable state every customer's total_orders and
\* total_spent are at least 0.
C11_StatsNonNegative ==
  \A c \in DOMAIN customers :
    customers[c].total_orders >= 0 /\ customers[c].total_spent >= 0

\* C12: when an update moves an order of customer C from a status other than
\* served to served and the next update moves it from served to cancelled,
\* the order keeping its customer and its total_amount, C's total_orders and
\* total_spent are again what they were before the first of the two updates.
C12_ServeThenCancelRoundTrip ==
  [][\A OLD \in orders, NEW_row \in orders' :
       (/\ last.op = "updateOrder"
        /\ last.arg.id = OLD.id
        /\ last.arg.old_status # "served"
        /\ OLD.status = "served"
        /\ OLD.customer_id # NULL
        /\ IsUpdateOf(OLD, NEW_row)
        /\ ServedToCancelled(OLD, NEW_row)
        /\ NEW_row.customer_id = OLD.customer_id
        /\ NEW_row.total_amount = OLD.total_amount)
       => StatsOf(customers', OLD.customer_id) = last.arg.before]_vars

RECURSIVE SumAmounts(_)
\* the sum of total_amount over a set of orders
SumAmounts(rows) ==
  IF rows = {} THEN 0
  ELSE LET o == CHOOSE x \in rows : TRUE IN o.total_amount + SumAmounts(rows \ {o})

\* C13: in every reachable state each customer's total_orders is the number
\* of the customer's orders whose status is served, and total_spent the sum
\* of their total_amount.
C13_StatsMatchServedOrders ==
  \A c \in DOMAIN customers :
    LET served == {o \in orders : o.customer_id = c /\ o.status = "served"}
    IN /\ customers[c].total_orders = Cardinality(served)
       /\ customers[c].total_spent = SumAmounts(served)

(***************************************************************************)
(* Claims about the writers of the customer statistics.                    *)
(***************************************************************************)
\* C14: a customer's total_orders, total_spent and last_order_at change only
\* in a step of the statistics trigger, that is in an update of an order; no
\* operation of the customer service changes them.
C14_OnlyTriggerWritesStats ==
  [][\A c \in DOMAIN customers :
       (c \in DOMAIN customers' /\ customers'[c] # customers[c])
         => last'.op = "updateOrder"]_vars

\* C15: every statistics update acts on the values the customer has when it
\* is applied, so that updates running at the same time end as if applied
\* one after the other: the trigger counting a served order, and the write
\* of updateCustomerOrderStats, each add 1 to the current total_orders and
\* the amount to the current total_spent.
C15_NoLostStatsUpdate ==
  [][/\ \A OLD \in orders, NEW_row \in orders' :
          (/\ IsUpdateOf(OLD, NEW_row)
           /\ IntoServed(OLD, NEW_row)
           /\ NEW_row.customer_id # NULL)
            => (StatsOf(customers', NEW_row.customer_id) =
                  [total_orders |-> customers[NEW_row.customer_id].total_orders + 1,
                   total_spent |->
                     customers[NEW_row.customer_id].total_spent + NEW_row.total_amount])
     /\ (last'.op = "updateCustomerOrderStats" /\ now' # now)
            => (StatsOf(customers', last'.arg.id) =
                  [total_orders |-> customers[last'.arg.id].total_orders + 1,
                   total_spent |->
                     customers[last'.arg.id].total_spent + last'.arg.orderAmount])]_vars

(***************************************************************************)
(* Claims about business hours.                                            *)
(***************************************************************************)
\* the answer C16 states for a table content, a center and a check time
OpenAsStated(rows, center_id, check_time) ==
  LET found == BusinessHourRows(rows, center_id, check_time.dow)
      r == CHOOSE x \in found : TRUE
  IN /\ found # {}
     /\ ~r.is_closed
     /\ r.open_time # NullTime
     /\ r.close_time # NullTime
     /\ IF r.close_time < r.open_time
        THEN check_time.time >= r.open_time \/ check_time.time <= r.close_time
        ELSE r.open_time <= check_time.time /\ check_time.time <= r.close_time

\* C16: for every revenue center and check time t the evaluator answers
\* closed when there is no business-hours row for (center, day of week of t),
\* when the row is marked closed or has no open or close time; otherwise
\* open exactly when t >= open_time or t <= close_time if close_time <
\* open_time, and exactly when open_time <= t <= close_time if not.
C16_OpenEvaluator ==
  probe.op \in {"is_revenue_center_open", "isRevenueCenterOpen"}
    => probe.result = OpenAsStated(probe.business_hours, probe.center_id,
                                   probe.check_time)

(***************************************************************************)
(* Claims about payments.                                                  *)
(***************************************************************************)
\* the payment status C17 states for an order total and the order's payments
PaymentStatusAsStated(total_amount, orderPayments) ==
  IF Len(orderPayments) = 0 THEN "pending"
  ELSE IF SumOfAmounts(FilterByStatus(orderPayments, "completed")) >= total_amount
  THEN "completed"
  ELSE IF /\ \E i \in 1..Len(orderPayments) : orderPayments[i].status = "completed"
          /\ \E i \in 1..Len(orderPayments) : orderPayments[i].status = "pending"
  THEN "partial"
  ELSE "pending"

\* C17: the derived payment status of an order is pending when it has no
\* payments; completed when the amounts of its completed payments sum to at
\* least the order's total_amount; otherwise partial when a payment is
\* completed and a payment is pending; otherwise pending.
C17_DerivedPaymentStatus ==
  probe.op = "calculated"
    => probe.result = PaymentStatusAsStated(probe.total_amount, probe.payments)

(***************************************************************************)
(* Claims about tenant provisioning.                                       *)
(***************************************************************************)
ErrorStatus == {400, 409, 500}

\* C18: once the endpoint has answered a request with an error status (400,
\* 409 or 500), table kitchen_owners holds no record that the request
\* created.
C18_NoOwnerAfterError ==
  \A q \in Requests :
    (req[q].pc = "done" /\ req[q].status \in ErrorStatus)
      => ~ \E o \in kitchen_owners : o.id = q

\* a request was answered 500 after the account could not be created, the
\* other request has created its owner record, and there is no record of
\* the failed request
C18_Witness ==
  \E q \in Requests :
    /\ req[q].pc = "done"
    /\ req[q].status = 500
    /\ req[q].error = "Failed to create user account"
    /\ \E o \in kitchen_owners : o.id # q
    /\ ~ \E o \in kitchen_owners : o.id = q

\* C19: when a request arrives for an email that has an owner record and no
\* account of the identity provider, it ends with an account for the email
\* existing, the owner record of the email linked to that account, and
\* exactly one owner record for the email.
C19_RerunCompletesProvisioning ==
  \A q \in Requests :
    (req[q].pc = "done" /\ req[q].existingOwner /\ req[q].identityMissing)
      => /\ \E a \in auth_users :
              /\ a.email = req[q].email
              /\ \E o \in kitchen_owners : o.email = req[q].email /\ o.user_id = a.id
         /\ Cardinality({o \in kitchen_owners : o.email = req[q].email}) = 1

(***************************************************************************)
(* Claims about access control.                                            *)
(***************************************************************************)
OrdersOf(t) == {o \in orders : o.restaurant_id = t}

OrderItemsOf(t) ==
  {i \in order_items : \E o \in OrdersOf(t) : o.id = i.order_id}

CustomersOf(t) ==
  {[id |-> c, row |-> customers[c]] :
     c \in {d \in DOMAIN customers : customers[d].restaurant_id = t}}

PaymentsOf(t) ==
  {p \in payments : \E o \in OrdersOf(t) : o.id = p.order_id}

Utilities == {"createSuperAdmin", "createMissingAuthUser", "debugSuperAdmin"}

\* C23: after a run of a utility that ended without an error there is at
\* most one account and at most one users record for the admin email, and
\* the auth_user_id of the super admin's record is the id of the account.
C23_UtilitiesReconcile ==
  (last.op \in Utilities /\ last.ok)
    => /\ Cardinality(AdminAccounts) <= 1
       /\ Cardinality({u \in users : u.email = adminEmail}) <= 1
       /\ \A u \in AdminRecords, a \in AdminAccounts : u.auth_user_id = a.id

\* C23, second part: a run of a utility that follows a run of the same
\* utility changes neither the accounts nor the users records.
C23_SecondRunChangesNothing ==
  [][(last.op \in Utilities /\ last.ok /\ last'.op = last.op /\ now' # now)
       => (auth_users' = auth_users /\ users' = users)]_vars

C22_EveryTransitionAccepted ==
  [][\A OLD \in orders :
       (last'.op = "updateOrder" /\ now' # now /\ last'.arg.id = OLD.id)
         => /\ last'.ok
            /\ last'.arg.old_status = OLD.status
            /\ \E NEW_row \in orders' :
                 NEW_row.id = OLD.id /\ NEW_row.status = last'.arg.status]_vars

\* a served order has been set back to pending
C22_Witness ==
  /\ last.op = "updateOrder"
  /\ last.ok
  /\ last.arg.old_status = "served"
  /\ last.arg.status = "pending"
  /\ \E o \in orders : o.id = last.arg.id /\ o.status = "pending"

(***************************************************************************)
(* Claims about orders inserted with a status.                             *)
(***************************************************************************)
\* C24: the step that inserts an order with status served and a customer
\* adds 1 to the customer's total_orders and the order's total_amount to the
\* customer's total_spent.
C24_InsertServedCounts ==
  [][\A NEW_row \in orders' :
       (/\ NEW_row.id \notin {o.id : o \in orders}
        /\ NEW_row.status = "served"
        /\ NEW_row.customer_id # NULL)
         => StatsOf(customers', NEW_row.customer_id) =
              [total_orders |-> StatsOf(customers, NEW_row.customer_id).total_orders + 1,
               total_spent |-> StatsOf(customers, NEW_row.customer_id).total_spent
                                 + NEW_row.total_amount]]_vars

(***************************************************************************)
(* Claims about order numbers after deletions.                             *)
(***************************************************************************)
\* C25: after creations and deletions of orders of one restaurant on one
\* day, the creation of an order is never rejected for its generated
\* order number.
C25_NumberFreeAfterDeletes ==
  last.op = "createOrder" => last.ok

(***************************************************************************)
(* Claims about the two evaluators of business hours.                      *)
(***************************************************************************)
\* C26: asked at the check time itself, the service's isRevenueCenterOpen and
\* the store's is_revenue_center_open give the same answer for every
\* business-hours row and every check time.
C26_EvaluatorsAgree ==
  probe.sql_current_time = probe.check_time.time
    => /\ probe.op = "isRevenueCenterOpen"
            => probe.result =
                 is_revenue_center_open(probe.business_hours, probe.center_id,
                                        probe.check_time, probe.sql_current_time)
       /\ probe.op = "is_revenue_center_open"
            => probe.result =
                 isRevenueCenterOpen(probe.business_hours, probe.center_id,
                                     probe.check_time)

(***************************************************************************)
(* Claims about the payment status shown.                                  *)
(***************************************************************************)
\* the badge that stands for a status of the service
BadgeOf == [completed |-> "Paid", partial |-> "Partial", pending |-> "Pending"]

\* C27: for every list of payments the badge the order-management page shows
\* is the one that stands for the status PaymentService derives from the list.
C27_PageAgreesWithService ==
  probe.op = "shown"
    => probe.result = BadgeOf[calculateOrderPaymentStatus(probe.payments)]

(***************************************************************************)
(* Claims about the replacement of business hours.                         *)
(***************************************************************************)
\* C28: while updateBusinessHours is the only replacement under way, and
\* after it has returned or thrown, the stored hours of the restaurant are
\* the complete previous set or the complete new set.
C28_PreviousOrNewSet ==
  /\ \A c \in Clients :
       (tx[c].pc = "createBusinessHours" /\ \A d \in Clients \ {c} : tx[d].pc = "idle")
         => HoursOf(business_hours, tx[c].restaurantId)
              \in {tx[c].previous, Elements(tx[c].hoursData)}
  /\ (last.op = "updateBusinessHours" /\ \A c \in Clients : tx[c].pc = "idle")
       => HoursOf(business_hours, last.arg.restaurantId)
            \in {last.arg.previous, Elements(last.arg.hoursData)}

(***************************************************************************)
(* Claims about findOrCreateCustomer.                                      *)
(***************************************************************************)
\* C29: whatever calls of findOrCreateCustomer have run or are under way, a
\* restaurant holds at most one customer with a given email.
C29_OneCustomerPerEmail ==
  \A i, j \in DOMAIN customers :
    (/\ customers[i].restaurant_id = customers[j].restaurant_id
     /\ customers[i].email = customers[j].email
     /\ customers[i].email # NULL) => i = j

(***************************************************************************)
(* Claims about the answer 201 of tenant provisioning.                     *)
(***************************************************************************)
\* C30: a request that was answered 201 has left an owner record for its
\* email whose user_id is the account created for it, and a users record with
\* role kitchen_owner whose auth_user_id is that account.
C30_CreatedMeansLinkedRecords ==
  \A q \in Requests :
    (req[q].pc = "done" /\ req[q].status = 201)
      => /\ \E o \in kitchen_owners, a \in auth_users :
              o.email = req[q].email /\ a.id = q /\ o.user_id = a.id
         /\ \E u \in users : u.role = "kitchen_owner" /\ u.auth_user_id = q

====
